---- MODULE Spec2Model ----
(***************************************************************************)
(* Verification model of the course scheduling repository.                 *)
(*                                                                         *)
(*   src/scheduler.py    TimeSlot, Instructor, Classroom, Course,          *)
(*                       CourseSchedule, ConstraintValidator, Schedule     *)
(*   src/main_system.py  TimeSlot, Resource, Instructor, Course,           *)
(*                       GreedyScheduler, CourseSchedulingSystem           *)
(*                                                                         *)
(* Times of day are minutes since midnight (09:30 is 570).  datetime.time  *)
(* values and zero-padded "HH:MM" strings both compare in that order.      *)
(* Hours are kept in minutes: h hours is 60*h, so that the comparison      *)
(* new_total > max_hours_per_week is 60*new_total > 60*max_hours_per_week. *)
(***************************************************************************)
EXTENDS Integers, Sequences, FiniteSets, TLC

VARIABLES
    courses,              \* Schedule.courses: course_id -> CourseSchedule
    validation_errors,    \* Schedule.validation_errors
    validation_warnings,  \* Schedule.validation_warnings
    ret,                  \* the last call on the Schedule and what it returned
    hist,                 \* history of a remove_course and the add_course after it
    g_call,               \* GreedyScheduler.schedule_course: the arguments of the call
    g_ret,                \* GreedyScheduler.schedule_course: the slot returned
    scheduled_slots,      \* GreedyScheduler.scheduled_slots: course_id -> slot
    sys_courses,          \* CourseSchedulingSystem.courses: course_id -> Course
    conflict_history,     \* CourseSchedulingSystem.conflict_history
    lock,                 \* CourseSchedulingSystem.lock: the thread holding it, 0 if free
    frame,                \* the locals of the operation running under the lock
    sys_ret,              \* the last call on the system that returned, and its result
    notification_handlers, \* CourseSchedulingSystem.notification_handlers
    sent_notifications,   \* per handler, its sent_notifications list
    calls,                \* per thread, its call of Schedule.add_course in a threaded run
    pure                  \* a call of a pure function: its arguments and its result

schedVars == <<courses, validation_errors, validation_warnings, ret, hist>>

greedyVars == <<g_call, g_ret, scheduled_slots>>

notifyVars == <<notification_handlers, sent_notifications>>

sysVars == <<sys_courses, conflict_history, lock, frame, sys_ret, notifyVars>>

vars == <<schedVars, greedyVars, sysVars, calls, pure>>

-----------------------------------------------------------------------------
(* Bounds *)

MaxTimeIdx == 3    \* times of day 09:00 + 30 min * (0..MaxTimeIdx)
MaxLog == 1        \* entries kept in validation_errors
MaxWarn == 1       \* entries kept in validation_warnings
MaxCands == 3      \* length of the candidate list given to the scheduler
NumThreads == 2    \* threads calling the CourseSchedulingSystem
MaxHistory == 2    \* entries kept in conflict_history
MaxEnrolled == 1   \* students enrolled in one course
MaxHandlers == 2   \* registrations of notification handlers
MaxSent == 2       \* notifications kept by one handler

-----------------------------------------------------------------------------
(* Time model: scheduler.TimeSlot *)

TimePoints == {540 + 30 * k : k \in 0..MaxTimeIdx}

TimeSlot(d, s, e) == [day |-> d, start_time |-> s, end_time |-> e]

NoSlot == TimeSlot(-1, 0, 0)

\* the one-hour slots offered to the Schedule (start < end): those of Monday
\* on the half-hour grid, and Tuesday 09:00-10:00
Slots ==
    {TimeSlot(0, s, s + 60) : s \in {t \in TimePoints : t + 60 \in TimePoints}}
        \cup {TimeSlot(1, 540, 600)}

overlaps_with(self, other) ==
    IF self.day # other.day
    THEN FALSE
    ELSE ~(self.end_time <= other.start_time \/ self.start_time >= other.end_time)

duration_minutes(self) == self.end_time - self.start_time

-----------------------------------------------------------------------------
(* Entity model: scheduler.Instructor, scheduler.Classroom, scheduler.Course.
   Course.instructor_id and Course.constraints are read by no operation of
   the Schedule and are left out of the course records. *)

Instructor_is_available(self, time_slot) ==
    \A i \in 1..Len(self.unavailable_slots) :
        ~overlaps_with(time_slot, self.unavailable_slots[i])

\* mutant: the availability windows are not consulted
Classroom_is_available_always(self, time_slot) == TRUE

Classroom_is_available(self, time_slot) ==
    IF self.available_slots = <<>>
    THEN TRUE
    ELSE \E i \in 1..Len(self.available_slots) :
            /\ time_slot.day = self.available_slots[i].day
            /\ time_slot.start_time >= self.available_slots[i].start_time
            /\ time_slot.end_time <= self.available_slots[i].end_time

has_equipment(self, required_equipment) ==
    required_equipment \subseteq self.special_equipment

\* Course.validate: (len(errors) == 0, errors)
Course_validate(self) ==
    LET e1 == IF self.course_id = "" \/ self.name = ""
              THEN <<"Course must have ID and name">> ELSE <<>>
        e2 == IF self.required_capacity <= 0
              THEN <<"Course capacity must be positive">> ELSE <<>>
        e3 == IF self.duration_minutes <= 0
              THEN <<"Course duration must be positive">> ELSE <<>>
        e4 == IF self.sessions_per_week < 1
              THEN <<"Course must have at least 1 session per week">> ELSE <<>>
        errors == e1 \o e2 \o e3 \o e4
    IN  [ok |-> errors = <<>>, errors |-> errors]

\* the instructors, classrooms and courses handed to the Schedule
Instructors ==
    { [instructor_id |-> "i1", name |-> "Smith",
       unavailable_slots |-> <<TimeSlot(0, 600, 660)>>, max_hours_per_week |-> 2],
      [instructor_id |-> "i2", name |-> "Jones",
       unavailable_slots |-> <<>>, max_hours_per_week |-> 1] }

Classrooms ==
    { [room_id |-> "r1", name |-> "RoomA", capacity |-> 30,
       available_slots |-> <<>>, special_equipment |-> {"projector"}],
      [room_id |-> "r2", name |-> "RoomB", capacity |-> 10,
       available_slots |-> <<TimeSlot(0, 540, 630)>>, special_equipment |-> {}] }

CourseOf(id, name, cap, dur, days, equip, sessions) ==
    [course_id |-> id, name |-> name, required_capacity |-> cap,
     duration_minutes |-> dur, preferred_days |-> days,
     required_equipment |-> equip, sessions_per_week |-> sessions]

Courses ==
    { CourseOf("c1", "Algebra", 20, 60, {}, {}, 1),
      CourseOf("c1", "", 10, 60, {1}, {}, 1),
      CourseOf("c2", "Biology", 20, 60, {}, {"projector"}, 0),
      CourseOf("c2", "Biology", 10, 0, {}, {"projector"}, 1),
      CourseOf("c2", "Chemistry", 10, 60, {1}, {}, 1) }

CourseIds == {c.course_id : c \in Courses}

\* CourseSchedule(course, instructor, classroom, time_slot); scheduled_date,
\* a timestamp no operation reads, is left out
CourseSchedule(course, instructor, classroom, time_slot) ==
    [course |-> course, instructor |-> instructor,
     classroom |-> classroom, time_slot |-> time_slot]

NoRecord == CourseSchedule(CourseOf("", "", 0, 0, {}, {}, 0),
                [instructor_id |-> "", name |-> "", unavailable_slots |-> <<>>,
                 max_hours_per_week |-> 0],
                [room_id |-> "", name |-> "", capacity |-> 0,
                 available_slots |-> <<>>, special_equipment |-> {}],
                NoSlot)

EmptySchedule == [k \in {} |-> NoRecord]

-----------------------------------------------------------------------------
(* Schedule queries *)

get_instructor_courses(sched, instructor_id) ==
    {sched[k] : k \in {j \in DOMAIN sched : sched[j].instructor.instructor_id = instructor_id}}

get_classroom_courses(sched, room_id) ==
    {sched[k] : k \in {j \in DOMAIN sched : sched[j].classroom.room_id = room_id}}

RECURSIVE SumDurations(_)
SumDurations(S) ==
    IF S = {} THEN 0
    ELSE LET cs == CHOOSE x \in S : TRUE
         IN  duration_minutes(cs.time_slot) + SumDurations(S \ {cs})

\* Instructor.get_weekly_hours, in minutes
get_weekly_hours(self, sched) ==
    SumDurations(get_instructor_courses(sched, self.instructor_id))

-----------------------------------------------------------------------------
(* ConstraintValidator.  A message is the record of what the f-string is
   built from: the check that produced it, the entity's name, the time slot,
   the numbers and the equipment it prints.  "; ".join(errors) is kept as
   the list it joins (the empty list is the empty string). *)

Msg(kind, entity, slot, nums, tags, errors) ==
    [kind |-> kind, entity |-> entity, slot |-> slot,
     nums |-> nums, tags |-> tags, errors |-> errors]

None == Msg("None", "", NoSlot, <<>>, {}, <<>>)

Pass == [ok |-> TRUE, error |-> None]

Fail(msg) == [ok |-> FALSE, error |-> msg]

validate_instructor_availability(instructor, time_slot) ==
    IF ~Instructor_is_available(instructor, time_slot)
    THEN Fail(Msg("instructor_unavailable", instructor.name, time_slot, <<>>, {}, <<>>))
    ELSE Pass

validate_classroom_availability(classroom, time_slot) ==
    IF ~Classroom_is_available(classroom, time_slot)
    THEN Fail(Msg("classroom_unavailable", classroom.name, time_slot, <<>>, {}, <<>>))
    ELSE Pass

validate_classroom_capacity(classroom, course) ==
    IF classroom.capacity < course.required_capacity
    THEN Fail(Msg("capacity", classroom.name, NoSlot,
                  <<classroom.capacity, course.required_capacity>>, {}, <<>>))
    ELSE Pass

validate_classroom_equipment(classroom, course) ==
    IF ~has_equipment(classroom, course.required_equipment)
    THEN Fail(Msg("missing_equipment", classroom.name, NoSlot, <<>>,
                  course.required_equipment \ classroom.special_equipment, <<>>))
    ELSE Pass

validate_instructor_hours(instructor, course_schedule, sched) ==
    LET new_total == get_weekly_hours(instructor, sched)
                        + duration_minutes(course_schedule.time_slot)
    IN  IF new_total > 60 * instructor.max_hours_per_week
        THEN Fail(Msg("exceed_max_hours", instructor.name, NoSlot,
                      <<new_total, 60 * instructor.max_hours_per_week>>, {}, <<>>))
        ELSE Pass

\* mutant: the instructor overlap scan is skipped
validate_no_instructor_conflicts_skipped(instructor, time_slot, sched) == Pass

validate_no_instructor_conflicts(instructor, time_slot, sched) ==
    IF \E cs \in get_instructor_courses(sched, instructor.instructor_id) :
            overlaps_with(time_slot, cs.time_slot)
    THEN Fail(Msg("instructor_conflict", instructor.name, time_slot, <<>>, {}, <<>>))
    ELSE Pass

validate_no_classroom_conflicts(classroom, time_slot, sched) ==
    IF \E cs \in get_classroom_courses(sched, classroom.room_id) :
            overlaps_with(time_slot, cs.time_slot)
    THEN Fail(Msg("classroom_double_booked", classroom.name, time_slot, <<>>, {}, <<>>))
    ELSE Pass

validate_preferred_days(course, time_slot) ==
    IF course.preferred_days # {} /\ time_slot.day \notin course.preferred_days
    THEN Fail(Msg("non_preferred_day", course.name, NoSlot, <<time_slot.day>>, {}, <<>>))
    ELSE Pass

-----------------------------------------------------------------------------
(* Schedule._validate_course_schedule against the committed records sched:
   (is_valid, error) and the warnings it appends to validation_warnings.
   Line 287 returns failure when Course.validate produced NO errors. *)

course_data_check(course) ==
    LET errors == Course_validate(course).errors
    IN  IF errors = <<>>
        THEN Fail(Msg("course_invalid", "", NoSlot, <<>>, {}, errors))
        ELSE Pass

validate_course_schedule(sched, cs) ==
    LET c1 == course_data_check(cs.course)
        c2 == validate_instructor_availability(cs.instructor, cs.time_slot)
        c3 == validate_classroom_availability(cs.classroom, cs.time_slot)
        c4 == validate_classroom_capacity(cs.classroom, cs.course)
        c5 == validate_classroom_equipment(cs.classroom, cs.course)
        c6 == validate_instructor_hours(cs.instructor, cs, sched)
        c7 == validate_no_instructor_conflicts(cs.instructor, cs.time_slot, sched)
        c8 == validate_no_classroom_conflicts(cs.classroom, cs.time_slot, sched)
        c9 == validate_preferred_days(cs.course, cs.time_slot)
        NoWarn(r) == [ok |-> r.ok, error |-> r.error, warnings |-> <<>>]
    IN  IF ~c1.ok THEN NoWarn(c1)
        ELSE IF ~c2.ok THEN NoWarn(c2)
        ELSE IF ~c3.ok THEN NoWarn(c3)
        ELSE IF ~c4.ok THEN NoWarn(c4)
        ELSE IF ~c5.ok THEN NoWarn(c5)
        ELSE IF ~c6.ok THEN NoWarn(c6)
        ELSE IF ~c7.ok THEN NoWarn(c7)
        ELSE IF ~c8.ok THEN NoWarn(c8)
        ELSE [ok |-> TRUE, error |-> None,
              warnings |-> IF c9.ok THEN <<>> ELSE <<c9.error>>]

-----------------------------------------------------------------------------
(* main_system.py: TimeSlot, Resource, Instructor, Course and the
   GreedyScheduler.  start_time and end_time are "HH:MM" strings compared as
   strings; zero-padded, they order as the minutes they are kept as here. *)

MSlot(d, s, e) == [day_of_week |-> d, start_time |-> s, end_time |-> e]

NoneSlot == MSlot(-1, 0, 0)

Resource(id, name, capacity, hours) ==
    [resource_id |-> id, name |-> name, capacity |-> capacity,
     availability_hours |-> hours]

SysInstructor(id, name, slots) ==
    [instructor_id |-> id, name |-> name, email |-> name, available_slots |-> slots]

SysCourse(id, name, instructor, capacity, resources) ==
    [course_id |-> id, name |-> name, instructor |-> instructor,
     capacity |-> capacity, required_resources |-> resources,
     schedule |-> NoneSlot, status |-> "scheduled", enrolled_students |-> 0]

slots_overlap(slot1, slot2) ==
    IF slot1.day_of_week # slot2.day_of_week
    THEN FALSE
    ELSE ~(slot1.end_time <= slot2.start_time \/ slot1.start_time >= slot2.end_time)

\* any(self._slots_overlap(slot, s) for s in slots)
any_overlap(slot, slots) ==
    \E i \in 1..Len(slots) : slots_overlap(slot, slots[i])

check_availability(course, slot) ==
    IF ~any_overlap(slot, course.instructor.available_slots)
    THEN FALSE
    ELSE \A r \in 1..Len(course.required_resources) :
            any_overlap(slot, course.required_resources[r].availability_hours)

\* the for loop of GreedyScheduler.schedule_course, from index i on
RECURSIVE first_available(_, _, _)
first_available(course, available_slots, i) ==
    IF i > Len(available_slots) THEN NoneSlot
    ELSE IF check_availability(course, available_slots[i]) THEN available_slots[i]
    ELSE first_available(course, available_slots, i + 1)

\* mutant: the loop keeps going and returns the last available candidate
RECURSIVE last_available(_, _, _)
last_available(course, available_slots, i) ==
    IF i > Len(available_slots) THEN NoneSlot
    ELSE LET later == last_available(course, available_slots, i + 1)
         IN  IF later # NoneSlot THEN later
             ELSE IF check_availability(course, available_slots[i]) THEN available_slots[i]
             ELSE NoneSlot

greedy_schedule_course_last(course, available_slots) ==
    last_available(course, available_slots, 1)

\* the slot GreedyScheduler.schedule_course returns (NoneSlot for None)
greedy_schedule_course(course, available_slots) ==
    first_available(course, available_slots, 1)

\* self.scheduled_slots after GreedyScheduler.schedule_course
record_scheduled(slots, course, slot) ==
    IF slot = NoneSlot THEN slots
    ELSE [k \in DOMAIN slots \cup {course.course_id} |->
            IF k = course.course_id THEN slot ELSE slots[k]]

Conflict(course_id, type, name) ==
    [course_id |-> course_id, conflict_type |-> type, description |-> name]

\* GreedyScheduler.detect_conflicts: the list of ScheduleConflict records
\* (the timestamp is left out; the description is kept as the name it prints)
RECURSIVE resource_conflicts(_, _)
resource_conflicts(course, r) ==
    IF r > Len(course.required_resources) THEN <<>>
    ELSE LET resource == course.required_resources[r]
             here == IF /\ resource.availability_hours # <<>>
                        /\ ~any_overlap(course.schedule, resource.availability_hours)
                     THEN <<Conflict(course.course_id, "resource_unavailable", resource.name)>>
                     ELSE <<>>
         IN  here \o resource_conflicts(course, r + 1)

\* mutant: an empty availability list counts as never available
detect_conflicts_no_skip(course) ==
    IF course.schedule = NoneSlot
    THEN <<Conflict(course.course_id, "no_schedule", "")>>
    ELSE (IF ~any_overlap(course.schedule, course.instructor.available_slots)
          THEN <<Conflict(course.course_id, "instructor_unavailable",
                          course.instructor.name)>>
          ELSE <<>>)
         \o [r \in 1..Len(SelectSeq(course.required_resources,
                    LAMBDA res : ~any_overlap(course.schedule, res.availability_hours)))
                |-> Conflict(course.course_id, "resource_unavailable",
                        SelectSeq(course.required_resources,
                            LAMBDA res : ~any_overlap(course.schedule,
                                                      res.availability_hours))[r].name)]

detect_conflicts(course) ==
    IF course.schedule = NoneSlot
    THEN <<Conflict(course.course_id, "no_schedule", "")>>
    ELSE LET instr == IF /\ course.instructor.available_slots # <<>>
                         /\ ~any_overlap(course.schedule, course.instructor.available_slots)
                      THEN <<Conflict(course.course_id, "instructor_unavailable",
                                      course.instructor.name)>>
                      ELSE <<>>
         IN  instr \o resource_conflicts(course, 1)

-----------------------------------------------------------------------------
(* Schedule: the committed mapping and its two logs.  ret is the last call:
   its name and what it returned. *)

Ret(op, ok, error) == [op |-> op, ok |-> ok, error |-> error]

Put(sched, id, cs) ==
    [k \in DOMAIN sched \cup {id} |-> IF k = id THEN cs ELSE sched[k]]

Without(sched, id) ==
    [k \in DOMAIN sched \ {id} |-> sched[k]]

NoHist == [op |-> "none", rec |-> NoRecord, base |-> EmptySchedule]

NoCall == [course |-> SysCourse("", "", SysInstructor("", "", <<>>), 0, <<>>),
           available_slots |-> <<>>]

NoReturn == [pc |-> "idle", slot |-> NoneSlot]

NoSlots == [k \in {} |-> NoneSlot]

Threads == 1..NumThreads

NoCallFrame == [pc |-> "idle", course_schedule |-> NoRecord, ok |-> TRUE, error |-> None]

NoCalls == [t \in Threads |-> NoCallFrame]

\* the position of thread t after a step of its call to the system: the call
\* has returned unless the thread goes on under the lock
Returns(t) ==
    calls' = IF lock' = t THEN calls ELSE [calls EXCEPT ![t] = NoCallFrame]

\* the position of a thread that has called op and has not returned
Called(op, course_id, new_slot) ==
    [pc |-> "called", op |-> op, course_id |-> course_id, new_slot |-> new_slot]

NoOut == [pending |-> TRUE]

NoPure == [fn |-> "none", args |-> <<>>, out |-> NoOut]

NoCourse == SysCourse("", "", SysInstructor("", "", <<>>), 0, <<>>)

NoCourses == [k \in {} |-> NoCourse]

NoFrame == [op |-> "none", pc |-> "idle", course_id |-> "", new_slot |-> NoneSlot,
            old_slot |-> NoneSlot, conflicts |-> <<>>]

\* notify lists the _notify_all(message, recipient) calls the operation made
SysRet(thread, op, ok, message, value) ==
    [thread |-> thread, op |-> op, ok |-> ok, message |-> message, value |-> value,
     notify |-> <<>>]

\* the result of an operation that called _notify_all once before returning
Notified(result, message, recipient) ==
    [result EXCEPT !.notify = <<[message |-> message, recipient |-> recipient]>>]

NoSysRet == SysRet(0, "none", TRUE, "", NoCourse)

\* the handler objects there are to register: one EmailNotificationHandler
\* and one SlackNotificationHandler, named by their medium
Handlers == {"email", "slack"}

\* NotificationHandler.notify of the two handler classes: the notification
\* is appended to the handler's sent_notifications (its timestamp is left out)
Handler_notify(sent, handler, message, recipient) ==
    [sent EXCEPT ![handler] = Append(@, [recipient |-> recipient,
                                         message |-> message,
                                         medium |-> handler])]

\* mutant: _notify_all stops after the first handler of the list
RECURSIVE notify_all_first_only(_, _, _, _)
notify_all_first_only(handlers, sent, message, recipient) ==
    IF handlers = <<>> THEN sent
    ELSE Handler_notify(sent, Head(handlers), message, recipient)

\* _notify_all: for handler in self.notification_handlers:
\* handler.notify(message, recipient)
RECURSIVE notify_all(_, _, _, _)
notify_all(handlers, sent, message, recipient) ==
    IF handlers = <<>> THEN sent
    ELSE notify_all(Tail(handlers),
                    Handler_notify(sent, Head(handlers), message, recipient),
                    message, recipient)

\* the number of times the handler is on the list
Registrations(handlers, handler) ==
    Cardinality({i \in DOMAIN handlers : handlers[i] = handler})

\* every handler can take the notifications of one more event
SentRoom ==
    \A handler \in Handlers :
        Len(sent_notifications[handler])
            + Registrations(notification_handlers, handler) <= MaxSent

\* the handlers after a step of thread t in a call to the system: the
\* _notify_all call of an operation that returns is run over the list (an
\* operation notifies while the handlers have room for the notifications)
NotifyAll(t) ==
    /\ IF lock' = t \/ sys_ret'.notify = <<>>
       THEN UNCHANGED sent_notifications
       ELSE /\ SentRoom
            /\ sent_notifications' =
                    notify_all(notification_handlers, sent_notifications,
                               sys_ret'.notify[1].message, sys_ret'.notify[1].recipient)
    /\ UNCHANGED notification_handlers

\* the state of a CourseSchedulingSystem after __init__; no notification
\* handler is registered
SysIdle ==
    /\ sys_courses = NoCourses
    /\ conflict_history = <<>>
    /\ lock = 0
    /\ frame = NoFrame
    /\ sys_ret = NoSysRet
    /\ notification_handlers = <<>>
    /\ sent_notifications = [handler \in Handlers |-> <<>>]

Init ==
    /\ courses = EmptySchedule
    /\ validation_errors = <<>>
    /\ validation_warnings = <<>>
    /\ ret = Ret("init", TRUE, None)
    /\ hist = NoHist
    /\ g_call = NoCall
    /\ g_ret = NoReturn
    /\ scheduled_slots = NoSlots
    /\ SysIdle
    /\ calls = NoCalls
    /\ pure = NoPure

\* mutant: the record is inserted before it is validated
add_course_insert_first(course, instructor, classroom, time_slot, validate_constraints) ==
    LET course_schedule == CourseSchedule(course, instructor, classroom, time_slot)
        v == validate_course_schedule(courses, course_schedule)
    IN  /\ courses' = Put(courses, course.course_id, course_schedule)
        /\ IF validate_constraints /\ ~v.ok
           THEN /\ Len(validation_errors) < MaxLog
                /\ validation_errors' = Append(validation_errors, v.error)
                /\ ret' = Ret("add_course", FALSE, v.error)
                /\ UNCHANGED validation_warnings
           ELSE /\ validate_constraints =>
                       Len(validation_warnings) + Len(v.warnings) <= MaxWarn
                /\ validation_warnings' =
                       IF validate_constraints
                       THEN validation_warnings \o v.warnings
                       ELSE validation_warnings
                /\ ret' = Ret("add_course", TRUE, None)
                /\ UNCHANGED validation_errors

\* mutant: a successful add_course starts the error log afresh
add_course_clears_log(course, instructor, classroom, time_slot, validate_constraints) ==
    LET course_schedule == CourseSchedule(course, instructor, classroom, time_slot)
        v == validate_course_schedule(courses, course_schedule)
    IN  IF validate_constraints /\ ~v.ok
        THEN /\ Len(validation_errors) < MaxLog
             /\ validation_errors' = Append(validation_errors, v.error)
             /\ ret' = Ret("add_course", FALSE, v.error)
             /\ UNCHANGED <<courses, validation_warnings>>
        ELSE /\ validate_constraints =>
                    Len(validation_warnings) + Len(v.warnings) <= MaxWarn
             /\ validation_warnings' =
                    IF validate_constraints
                    THEN validation_warnings \o v.warnings
                    ELSE validation_warnings
             /\ courses' = Put(courses, course.course_id, course_schedule)
             /\ ret' = Ret("add_course", TRUE, None)
             /\ validation_errors' = <<>>

\* mutant: the candidate is validated against the records of the other courses
add_course_without_own(course, instructor, classroom, time_slot, validate_constraints) ==
    LET course_schedule == CourseSchedule(course, instructor, classroom, time_slot)
        v == validate_course_schedule(Without(courses, course.course_id), course_schedule)
    IN  IF validate_constraints /\ ~v.ok
        THEN /\ Len(validation_errors) < MaxLog
             /\ validation_errors' = Append(validation_errors, v.error)
             /\ ret' = Ret("add_course", FALSE, v.error)
             /\ UNCHANGED <<courses, validation_warnings>>
        ELSE /\ validate_constraints =>
                    Len(validation_warnings) + Len(v.warnings) <= MaxWarn
             /\ validation_warnings' =
                    IF validate_constraints
                    THEN validation_warnings \o v.warnings
                    ELSE validation_warnings
             /\ courses' = Put(courses, course.course_id, course_schedule)
             /\ ret' = Ret("add_course", TRUE, None)
             /\ UNCHANGED validation_errors

\* Schedule.add_course(course, instructor, classroom, time_slot, validate_constraints)
add_course(course, instructor, classroom, time_slot, validate_constraints) ==
    LET course_schedule == CourseSchedule(course, instructor, classroom, time_slot)
        v == validate_course_schedule(courses, course_schedule)
    IN  IF validate_constraints /\ ~v.ok
        THEN /\ Len(validation_errors) < MaxLog
             /\ validation_errors' = Append(validation_errors, v.error)
             /\ ret' = Ret("add_course", FALSE, v.error)
             /\ UNCHANGED <<courses, validation_warnings>>
        ELSE /\ validate_constraints =>
                    Len(validation_warnings) + Len(v.warnings) <= MaxWarn
             /\ validation_warnings' =
                    IF validate_constraints
                    THEN validation_warnings \o v.warnings
                    ELSE validation_warnings
             /\ courses' = Put(courses, course.course_id, course_schedule)
             /\ ret' = Ret("add_course", TRUE, None)
             /\ UNCHANGED validation_errors

\* mutant: the record is reported removed but stays in the mapping
remove_course_keeps_record(course_id) ==
    IF course_id \in DOMAIN courses
    THEN /\ ret' = Ret("remove_course", TRUE, None)
         /\ UNCHANGED <<courses, validation_errors, validation_warnings>>
    ELSE /\ ret' = Ret("remove_course", FALSE, None)
         /\ UNCHANGED <<courses, validation_errors, validation_warnings>>

\* Schedule.remove_course(course_id)
remove_course(course_id) ==
    IF course_id \in DOMAIN courses
    THEN /\ courses' = Without(courses, course_id)
         /\ ret' = Ret("remove_course", TRUE, None)
         /\ UNCHANGED <<validation_errors, validation_warnings>>
    ELSE /\ ret' = Ret("remove_course", FALSE, None)
         /\ UNCHANGED <<courses, validation_errors, validation_warnings>>

AddCourse ==
    /\ \E course \in Courses, instructor \in Instructors,
          classroom \in Classrooms, time_slot \in Slots :
            add_course(course, instructor, classroom, time_slot, TRUE)
    /\ UNCHANGED <<hist, greedyVars, sysVars, calls, pure>>

RemoveCourse ==
    /\ \E course_id \in CourseIds : remove_course(course_id)
    /\ UNCHANGED <<hist, greedyVars, sysVars, calls, pure>>

Next == AddCourse \/ RemoveCourse

Spec == Init /\ [][Next]_vars

-----------------------------------------------------------------------------
(* Schedule reports.  The by_day, by_instructor and by_classroom dicts are
   functions on the keys that have an entry; the two conflict lists, whose
   order is the iteration order of a Python set, are sets of entries. *)

\* DayOfWeek: the member names, by value
DayNames == <<"MONDAY", "TUESDAY", "WEDNESDAY", "THURSDAY", "FRIDAY", "SATURDAY", "SUNDAY">>

\* mutant: the records of the day and of every later day
get_courses_by_day_onwards(sched, day) ==
    {sched[k] : k \in {j \in DOMAIN sched : sched[j].time_slot.day >= day}}

\* Schedule.get_courses_by_day(day)
get_courses_by_day(sched, day) ==
    {sched[k] : k \in {j \in DOMAIN sched : sched[j].time_slot.day = day}}

\* the pairs course1, course2 of the list, course2 after course1, whose
\* slots overlap (check_instructor_conflicts and check_classroom_conflicts)
overlapping_pairs(records) ==
    {pair \in SUBSET records :
        /\ Cardinality(pair) = 2
        /\ \A a, b \in pair : a # b => overlaps_with(a.time_slot, b.time_slot)}

\* Schedule.check_instructor_conflicts(instructor_id)
check_instructor_conflicts(sched, instructor_id) ==
    overlapping_pairs(get_instructor_courses(sched, instructor_id))

\* Schedule.check_classroom_conflicts(room_id)
check_classroom_conflicts(sched, room_id) ==
    overlapping_pairs(get_classroom_courses(sched, room_id))

\* Schedule.get_schedule_summary()
get_schedule_summary(sched) ==
    LET days == {day \in 0..6 : get_courses_by_day(sched, day) # {}}
        instructors == {sched[id].instructor.instructor_id : id \in DOMAIN sched}
        classrooms == {sched[id].classroom.room_id : id \in DOMAIN sched}
    IN  [total_courses |-> Cardinality(DOMAIN sched),
         by_day |-> [name \in {DayNames[day + 1] : day \in days} |->
                        Cardinality(get_courses_by_day(sched,
                            CHOOSE day \in days : DayNames[day + 1] = name))],
         by_instructor |-> [instructor_id \in instructors |->
                        Cardinality(get_instructor_courses(sched, instructor_id))],
         by_classroom |-> [room_id \in classrooms |->
                        Cardinality(get_classroom_courses(sched, room_id))],
         conflicts |->
            [instructor |->
                {[instructor_id |-> instructor_id,
                  conflict_count |->
                        Cardinality(check_instructor_conflicts(sched, instructor_id))] :
                    instructor_id \in {i \in instructors :
                                        check_instructor_conflicts(sched, i) # {}}},
             classroom |->
                {[room_id |-> room_id,
                  conflict_count |->
                        Cardinality(check_classroom_conflicts(sched, room_id))] :
                    room_id \in {r \in classrooms :
                                        check_classroom_conflicts(sched, r) # {}}}]]

\* mutant: the schedule counts as valid when the error log is not empty
is_valid_inverted == Len(validation_errors) # 0

\* Schedule.is_valid()
is_valid == Len(validation_errors) = 0

\* Schedule.get_validation_report()
get_validation_report ==
    [is_valid |-> is_valid,
     errors |-> validation_errors,
     warnings |-> validation_warnings,
     total_courses |-> Cardinality(DOMAIN courses),
     summary |-> get_schedule_summary(courses)]

-----------------------------------------------------------------------------
(* Remove-then-readd on any committed mapping: the mapping is built by bulk
   loads (validate_constraints=False reaches every mapping, those of
   validated calls included), a record is removed, and the validated
   add_course of the record just deleted follows and ends the scenario.
   hist.base is the mapping the remove was called on. *)

LoadCourse ==
    /\ hist.op = "none"
    /\ \E course \in Courses, instructor \in Instructors,
          classroom \in Classrooms, time_slot \in Slots :
            add_course(course, instructor, classroom, time_slot, FALSE)
    /\ hist' = NoHist
    /\ UNCHANGED <<greedyVars, sysVars, calls, pure>>

ReaddCourse ==
    /\ hist.op = "removed"
    /\ add_course(hist.rec.course, hist.rec.instructor, hist.rec.classroom,
                  hist.rec.time_slot, TRUE)
    /\ hist' = [hist EXCEPT !.op = "readded"]
    /\ UNCHANGED <<greedyVars, sysVars, calls, pure>>

RemoveCourseH ==
    /\ hist.op = "none"
    /\ \E course_id \in CourseIds :
        /\ remove_course(course_id)
        /\ hist' = IF course_id \in DOMAIN courses
                   THEN [op |-> "removed", rec |-> courses[course_id], base |-> courses]
                   ELSE NoHist
    /\ UNCHANGED <<greedyVars, sysVars, calls, pure>>

NextReadd == LoadCourse \/ ReaddCourse \/ RemoveCourseH

SpecReadd == Init /\ [][NextReadd]_vars

(***************************************************************************)
(* add_course and remove_course, with hist holding the last remove_course  *)
(* call: its argument, its result and the mapping it was called on.        *)
(***************************************************************************)
RemoveCall(course_id, ok, base) ==
    [op |-> "remove_course", course_id |-> course_id, ok |-> ok, base |-> base]

\* the slots of the records added here: Monday 09:00-10:00 and Tuesday
\* 09:00-10:00
RemoveSlots == {TimeSlot(0, 540, 600), TimeSlot(1, 540, 600)}

AddCourseR ==
    /\ \E course \in Courses, instructor \in Instructors,
          classroom \in Classrooms, time_slot \in RemoveSlots :
            add_course(course, instructor, classroom, time_slot, TRUE)
    /\ hist' = NoHist
    /\ UNCHANGED <<greedyVars, sysVars, calls, pure>>

RemoveCourseR ==
    /\ \E course_id \in CourseIds :
        /\ remove_course(course_id)
        /\ hist' = RemoveCall(course_id, ret'.ok, courses)
    /\ UNCHANGED <<greedyVars, sysVars, calls, pure>>

NextRemove == AddCourseR \/ RemoveCourseR

SpecRemove == Init /\ [][NextRemove]_vars

(***************************************************************************)
(* An add_course call on any committed mapping: the mapping is built by    *)
(* bulk loads (validate_constraints=False) and removals, then add_course   *)
(* is called with or without validation and ends the scenario.  hist holds *)
(* that call (its record, validate_constraints and the mapping it was      *)
(* called on) and the course ids given to add_course so far.               *)
(***************************************************************************)
AddCall(rec, validate_constraints, base, added) ==
    [op |-> "add_course", rec |-> rec, validate_constraints |-> validate_constraints,
     base |-> base, added |-> added]

NoAddCall == [op |-> "none", rec |-> NoRecord, validate_constraints |-> FALSE,
              base |-> EmptySchedule, added |-> {}]

InitReplace ==
    /\ courses = EmptySchedule
    /\ validation_errors = <<>>
    /\ validation_warnings = <<>>
    /\ ret = Ret("init", TRUE, None)
    /\ hist = NoAddCall
    /\ g_call = NoCall
    /\ g_ret = NoReturn
    /\ scheduled_slots = NoSlots
    /\ SysIdle
    /\ calls = NoCalls
    /\ pure = NoPure

\* the slots of the records added here: Monday 09:00-10:00, Monday
\* 09:30-10:30 and Tuesday 09:00-10:00
ReplaceSlots == {TimeSlot(0, 540, 600), TimeSlot(0, 570, 630), TimeSlot(1, 540, 600)}

LoadCourseP ==
    /\ hist.op = "none"
    /\ \E course \in Courses, instructor \in Instructors, classroom \in Classrooms,
          time_slot \in ReplaceSlots :
            /\ add_course(course, instructor, classroom, time_slot, FALSE)
            /\ hist' = [hist EXCEPT !.added = @ \cup {course.course_id}]
    /\ UNCHANGED <<greedyVars, sysVars, calls, pure>>

AddCourseP ==
    /\ hist.op = "none"
    /\ \E course \in Courses, instructor \in Instructors, classroom \in Classrooms,
          time_slot \in ReplaceSlots, validate_constraints \in BOOLEAN :
            /\ add_course(course, instructor, classroom, time_slot, validate_constraints)
            /\ hist' = AddCall(CourseSchedule(course, instructor, classroom, time_slot),
                               validate_constraints, courses,
                               hist.added \cup {course.course_id})
    /\ UNCHANGED <<greedyVars, sysVars, calls, pure>>

RemoveCourseP ==
    /\ hist.op = "none"
    /\ \E course_id \in CourseIds : remove_course(course_id)
    /\ UNCHANGED hist
    /\ UNCHANGED <<greedyVars, sysVars, calls, pure>>

NextReplace == LoadCourseP \/ AddCourseP \/ RemoveCourseP

SpecReplace == InitReplace /\ [][NextReplace]_vars

(***************************************************************************)
(* The post-hoc audit: check_instructor_conflicts and                      *)
(* check_classroom_conflicts as they walk the list of an entity's records, *)
(* on schedules of up to three records loaded with or without validation.  *)
(***************************************************************************)
\* mutant: the inner loop walks the whole list instead of courses[i + 1:]
RECURSIVE conflict_pairs_whole_list(_, _, _)
conflict_pairs_whole_list(cs, i, j) ==
    IF i > Len(cs) THEN <<>>
    ELSE IF j > Len(cs) THEN conflict_pairs_whole_list(cs, i + 1, 1)
    ELSE (IF i # j /\ overlaps_with(cs[i].time_slot, cs[j].time_slot)
          THEN <<(<<cs[i], cs[j]>>)>>
          ELSE <<>>)
         \o conflict_pairs_whole_list(cs, i, j + 1)

\* the two nested loops of check_instructor_conflicts and
\* check_classroom_conflicts over the list cs, from course1 = cs[i] and
\* course2 = cs[j] on: the list of tuples (course1, course2) appended
RECURSIVE conflict_pairs(_, _, _)
conflict_pairs(cs, i, j) ==
    IF i > Len(cs) THEN <<>>
    ELSE IF j > Len(cs) THEN conflict_pairs(cs, i + 1, i + 2)
    ELSE (IF overlaps_with(cs[i].time_slot, cs[j].time_slot)
          THEN <<(<<cs[i], cs[j]>>)>>
          ELSE <<>>)
         \o conflict_pairs(cs, i, j + 1)

\* the lists a comprehension over self.courses.values() can yield for a set of
\* records: the dict keeps them in insertion order, which is any order
ListsOf(records) ==
    {cs \in [1..Cardinality(records) -> records] :
        \A i, j \in 1..Cardinality(records) : i # j => cs[i] # cs[j]}

AuditCourses ==
    { CourseOf("c1", "Algebra", 20, 60, {}, {}, 1),
      CourseOf("c2", "Chemistry", 10, 60, {1}, {}, 1),
      CourseOf("c3", "Drama", 10, 60, {}, {}, 1) }

AuditAdd ==
    /\ \E course \in AuditCourses, instructor \in Instructors,
          classroom \in Classrooms, time_slot \in Slots, validate_constraints \in BOOLEAN :
            add_course(course, instructor, classroom, time_slot, validate_constraints)
    /\ UNCHANGED <<hist, greedyVars, sysVars, calls, pure>>

AuditRemove ==
    /\ \E course \in AuditCourses : remove_course(course.course_id)
    /\ UNCHANGED <<hist, greedyVars, sysVars, calls, pure>>

NextAudit == AuditAdd \/ AuditRemove

SpecAudit == Init /\ [][NextAudit]_vars

-----------------------------------------------------------------------------
(* GreedyScheduler.schedule_course on its own: a call with a course and a
   candidate list drawn from the inputs below, and its return. *)

Mon0812 == MSlot(0, 480, 720)

Mon0818 == MSlot(0, 480, 1080)

GInstructors ==
    { SysInstructor("instr_001", "Dr. Smith", <<Mon0812>>),
      SysInstructor("instr_002", "Prof. Johnson", <<MSlot(1, 480, 600), MSlot(0, 540, 600)>>),
      SysInstructor("instr_003", "Dr. Lee", <<>>) }

ClassroomA == Resource("room_001", "Classroom A", 30, <<Mon0818>>)

LabA == Resource("lab_001", "Computer Lab A", 20, <<MSlot(0, 540, 1020), MSlot(1, 540, 1020)>>)

OnlineA == Resource("online_001", "Online A", 100, <<>>)

GResourceLists == {<<>>, <<ClassroomA>>, <<ClassroomA, LabA>>, <<OnlineA>>}

GCourses ==
    {SysCourse("course_1", "Python", i, 30, rs) : i \in GInstructors, rs \in GResourceLists}

GCandidates ==
    {MSlot(0, 420, 480), MSlot(0, 480, 540), MSlot(0, 510, 570), MSlot(0, 540, 600),
     MSlot(1, 480, 540)}

RECURSIVE SeqsUpTo(_, _)
SeqsUpTo(S, n) ==
    IF n = 0 THEN {<<>>}
    ELSE LET shorter == SeqsUpTo(S, n - 1)
         IN  shorter \cup {Append(q, x) : q \in {p \in shorter : Len(p) = n - 1}, x \in S}

InitGreedy ==
    /\ courses = EmptySchedule
    /\ validation_errors = <<>>
    /\ validation_warnings = <<>>
    /\ ret = Ret("init", TRUE, None)
    /\ hist = NoHist
    /\ g_call \in [course : GCourses, available_slots : SeqsUpTo(GCandidates, MaxCands)]
    /\ g_ret = NoReturn
    /\ scheduled_slots = NoSlots
    /\ SysIdle
    /\ calls = NoCalls
    /\ pure = NoPure

GreedyScheduleCourse ==
    /\ g_ret.pc = "idle"
    /\ LET slot == greedy_schedule_course(g_call.course, g_call.available_slots)
       IN  /\ g_ret' = [pc |-> "done", slot |-> slot]
           /\ scheduled_slots' = record_scheduled(scheduled_slots, g_call.course, slot)
    /\ UNCHANGED <<g_call, schedVars, sysVars, calls, pure>>

NextGreedy == GreedyScheduleCourse

SpecGreedy == InitGreedy /\ [][NextGreedy]_vars

-----------------------------------------------------------------------------
(* CourseSchedulingSystem.  Every mutating operation runs in `with
   self.lock`: a call starts when the lock is free, takes it, and gives it
   back with the step that returns; frame holds its locals in between.
   get_course takes no lock and runs at any instant.  The instructors,
   resources and courses are those of demonstrate_system. *)

WeekdaySlots(days, s, e) == [i \in 1..Len(days) |-> MSlot(days[i], s, e)]

Instructor1 == SysInstructor("instr_001", "Dr. Smith", WeekdaySlots(<<0, 1, 2, 3, 4>>, 480, 720))

Instructor2 == SysInstructor("instr_002", "Prof. Johnson", WeekdaySlots(<<0, 2, 4>>, 840, 1080))

SysClassroomA == Resource("room_001", "Classroom A", 30, WeekdaySlots(<<0, 1, 2, 3, 4>>, 480, 1080))

SysLabA == Resource("lab_001", "Computer Lab A", 20, WeekdaySlots(<<0, 2, 4>>, 540, 1020))

\* the arguments given to create_course: name, instructor, capacity, resources
SysTemplates ==
    { [name |-> "Python Programming Basics", instructor |-> Instructor1,
       capacity |-> 30, resources |-> <<SysClassroomA>>],
      [name |-> "Data Science with Python", instructor |-> Instructor2,
       capacity |-> 25, resources |-> <<SysLabA, SysClassroomA>>] }

\* create_course draws course_id from uuid4; the ids stand for the draws
SysIds == {"course_1", "course_2"}

\* the new_slot arguments given to reschedule_course
NewSlots == {MSlot(0, 540, 600), MSlot(0, 420, 540), MSlot(5, 540, 600)}

\* CourseSchedulingSystem._generate_available_slots: Monday to Friday,
\* 08:00 to 18:00, one slot an hour, days outermost
generate_available_slots ==
    [i \in 1..50 |->
        LET day == (i - 1) \div 10
            hour == 8 + ((i - 1) % 10)
        IN  MSlot(day, 60 * hour, 60 * (hour + 1))]

SetSchedule(id, slot) == [sys_courses EXCEPT ![id].schedule = slot]

\* create_course
\* create_course with its arguments drawn from templates
CreateCourseFrom(templates) ==
    /\ lock = 0
    /\ \E id \in SysIds \ DOMAIN sys_courses, a \in templates :
        sys_courses' = [k \in DOMAIN sys_courses \cup {id} |->
                            IF k = id
                            THEN SysCourse(id, a.name, a.instructor, a.capacity, a.resources)
                            ELSE sys_courses[k]]
    /\ UNCHANGED <<conflict_history, lock, frame, sys_ret, notifyVars, schedVars, greedyVars, calls, pure>>

CreateCourse == CreateCourseFrom(SysTemplates)

\* get_course(course_id): self.courses.get(course_id), no lock taken
get_course(course_id) ==
    IF course_id \in DOMAIN sys_courses THEN sys_courses[course_id] ELSE NoCourse

GetCourse(t, course_id) ==
    /\ t # lock
    /\ sys_ret' = SysRet(t, "get_course", course_id \in DOMAIN sys_courses, "",
                         get_course(course_id))
    /\ UNCHANGED <<sys_courses, conflict_history, lock, frame, notifyVars, schedVars, greedyVars, calls, pure>>

\* mutant: schedule_course writes course.schedule before it tests the slot
ScheduleCourseCall_writes_none(t, course_id) ==
    /\ lock = 0
    /\ IF course_id \notin DOMAIN sys_courses
       THEN /\ sys_ret' = SysRet(t, "schedule_course", FALSE, "Course not found", NoCourse)
            /\ UNCHANGED <<sys_courses, scheduled_slots, lock, frame>>
       ELSE IF sys_courses[course_id].status # "scheduled"
       THEN /\ sys_ret' = SysRet(t, "schedule_course", FALSE, "cannot reschedule", NoCourse)
            /\ UNCHANGED <<sys_courses, scheduled_slots, lock, frame>>
       ELSE LET course == sys_courses[course_id]
                assigned_slot == greedy_schedule_course(course, generate_available_slots)
            IN  IF assigned_slot = NoneSlot
                THEN /\ sys_ret' = SysRet(t, "schedule_course", FALSE,
                                          "No available time slot found for this course", NoCourse)
                     /\ sys_courses' = SetSchedule(course_id, NoneSlot)
                     /\ UNCHANGED <<scheduled_slots, lock, frame>>
                ELSE /\ Len(conflict_history)
                            + Len(detect_conflicts([course EXCEPT !.schedule = assigned_slot]))
                                <= MaxHistory
                     /\ scheduled_slots' = record_scheduled(scheduled_slots, course, assigned_slot)
                     /\ sys_courses' = SetSchedule(course_id, assigned_slot)
                     /\ lock' = t
                     /\ frame' = [NoFrame EXCEPT !.op = "schedule_course", !.pc = "sc_detect",
                                                 !.course_id = course_id,
                                                 !.new_slot = assigned_slot]
                     /\ UNCHANGED sys_ret
    /\ UNCHANGED <<conflict_history, schedVars, g_call, g_ret, pure>>
    /\ Returns(t)
    /\ NotifyAll(t)

\* schedule_course, lines 450-467: lookup, status check, the scheduler's
\* search, course.schedule = assigned_slot
ScheduleCourseCall(t, course_id) ==
    /\ lock = 0
    /\ IF course_id \notin DOMAIN sys_courses
       THEN /\ sys_ret' = SysRet(t, "schedule_course", FALSE, "Course not found", NoCourse)
            /\ UNCHANGED <<sys_courses, scheduled_slots, lock, frame>>
       ELSE IF sys_courses[course_id].status # "scheduled"
       THEN /\ sys_ret' = SysRet(t, "schedule_course", FALSE, "cannot reschedule", NoCourse)
            /\ UNCHANGED <<sys_courses, scheduled_slots, lock, frame>>
       ELSE LET course == sys_courses[course_id]
                assigned_slot == greedy_schedule_course(course, generate_available_slots)
            IN  IF assigned_slot = NoneSlot
                THEN /\ sys_ret' = SysRet(t, "schedule_course", FALSE,
                                          "No available time slot found for this course", NoCourse)
                     /\ UNCHANGED <<sys_courses, scheduled_slots, lock, frame>>
                ELSE /\ Len(conflict_history)
                            + Len(detect_conflicts([course EXCEPT !.schedule = assigned_slot]))
                                <= MaxHistory
                     /\ scheduled_slots' = record_scheduled(scheduled_slots, course, assigned_slot)
                     /\ sys_courses' = SetSchedule(course_id, assigned_slot)
                     /\ lock' = t
                     /\ frame' = [NoFrame EXCEPT !.op = "schedule_course", !.pc = "sc_detect",
                                                 !.course_id = course_id,
                                                 !.new_slot = assigned_slot]
                     /\ UNCHANGED sys_ret
    /\ UNCHANGED <<conflict_history, schedVars, g_call, g_ret, pure>>
    /\ Returns(t)
    /\ NotifyAll(t)

\* schedule_course with the conflict test of line 472 dropped: always the
\* success return
ScheduleCourseReturn_ignores_conflicts(t) ==
    /\ lock = t
    /\ frame.pc = "sc_detect"
    /\ sys_ret' = Notified(
            SysRet(t, "schedule_course", TRUE, "Course scheduled", NoCourse),
            "Course '" \o sys_courses[frame.course_id].name
                \o "' has been scheduled successfully",
            sys_courses[frame.course_id].instructor.email)
    /\ lock' = 0
    /\ frame' = NoFrame
    /\ UNCHANGED <<conflict_history, sys_courses, schedVars, greedyVars, pure>>
    /\ Returns(t)
    /\ NotifyAll(t)

\* schedule_course, lines 469-483: detect_conflicts, then the failure or the
\* success return
ScheduleCourseReturn(t) ==
    /\ lock = t
    /\ frame.pc = "sc_detect"
    /\ LET conflicts == detect_conflicts(sys_courses[frame.course_id])
       IN  IF conflicts # <<>>
           THEN /\ conflict_history' = conflict_history \o conflicts
                /\ sys_ret' = SysRet(t, "schedule_course", FALSE,
                                     "Scheduling conflicts detected", NoCourse)
           ELSE /\ sys_ret' = Notified(
                        SysRet(t, "schedule_course", TRUE, "Course scheduled", NoCourse),
                        "Course '" \o sys_courses[frame.course_id].name
                            \o "' has been scheduled successfully",
                        sys_courses[frame.course_id].instructor.email)
                /\ UNCHANGED conflict_history
    /\ lock' = 0
    /\ frame' = NoFrame
    /\ UNCHANGED <<sys_courses, schedVars, greedyVars, pure>>
    /\ Returns(t)
    /\ NotifyAll(t)

\* reschedule_course, lines 487-493: lookup, old_slot = course.schedule,
\* course.schedule = new_slot
RescheduleCourseCall(t, course_id, new_slot) ==
    /\ lock = 0
    /\ IF course_id \notin DOMAIN sys_courses
       THEN /\ sys_ret' = SysRet(t, "reschedule_course", FALSE, "Course not found", NoCourse)
            /\ UNCHANGED <<sys_courses, lock, frame>>
       ELSE LET course == sys_courses[course_id]
            IN  /\ Len(conflict_history)
                        + Len(detect_conflicts([course EXCEPT !.schedule = new_slot]))
                            <= MaxHistory
                /\ sys_courses' = SetSchedule(course_id, new_slot)
                /\ lock' = t
                /\ frame' = [NoFrame EXCEPT !.op = "reschedule_course", !.pc = "rs_detect",
                                            !.course_id = course_id, !.new_slot = new_slot,
                                            !.old_slot = course.schedule]
                /\ UNCHANGED sys_ret
    /\ UNCHANGED <<conflict_history, schedVars, greedyVars, pure>>
    /\ Returns(t)
    /\ NotifyAll(t)

\* mutant: a successful reschedule_course empties the conflict history
RescheduleCourseDetect_clears_history(t) ==
    /\ lock = t
    /\ frame.pc = "rs_detect"
    /\ LET conflicts == detect_conflicts(sys_courses[frame.course_id])
       IN  IF conflicts # <<>>
           THEN /\ sys_courses' = SetSchedule(frame.course_id, frame.old_slot)
                /\ frame' = [frame EXCEPT !.pc = "rs_record", !.conflicts = conflicts]
                /\ UNCHANGED <<lock, sys_ret, conflict_history>>
           ELSE /\ sys_ret' = Notified(
                        SysRet(t, "reschedule_course", TRUE,
                               "Course rescheduled successfully", NoCourse),
                        "Course '" \o sys_courses[frame.course_id].name
                            \o "' has been rescheduled",
                        sys_courses[frame.course_id].instructor.email)
                /\ lock' = 0
                /\ frame' = NoFrame
                /\ conflict_history' = <<>>
                /\ UNCHANGED sys_courses
    /\ UNCHANGED <<schedVars, greedyVars, pure>>
    /\ Returns(t)
    /\ NotifyAll(t)

\* reschedule_course, lines 495-500 and 504-510: detect_conflicts, then the
\* revert to old_slot, or the success return
RescheduleCourseDetect(t) ==
    /\ lock = t
    /\ frame.pc = "rs_detect"
    /\ LET conflicts == detect_conflicts(sys_courses[frame.course_id])
       IN  IF conflicts # <<>>
           THEN /\ sys_courses' = SetSchedule(frame.course_id, frame.old_slot)
                /\ frame' = [frame EXCEPT !.pc = "rs_record", !.conflicts = conflicts]
                /\ UNCHANGED <<lock, sys_ret>>
           ELSE /\ sys_ret' = Notified(
                        SysRet(t, "reschedule_course", TRUE,
                               "Course rescheduled successfully", NoCourse),
                        "Course '" \o sys_courses[frame.course_id].name
                            \o "' has been rescheduled",
                        sys_courses[frame.course_id].instructor.email)
                /\ lock' = 0
                /\ frame' = NoFrame
                /\ UNCHANGED sys_courses
    /\ UNCHANGED <<conflict_history, schedVars, greedyVars, pure>>
    /\ Returns(t)
    /\ NotifyAll(t)

\* mutant: the failure return of reschedule_course leaves the lock held
RescheduleCourseFail_keeps_lock(t) ==
    /\ lock = t
    /\ frame.pc = "rs_record"
    /\ conflict_history' = conflict_history \o frame.conflicts
    /\ sys_ret' = SysRet(t, "reschedule_course", FALSE,
                         "Cannot reschedule: conflicts detected", NoCourse)
    /\ frame' = NoFrame
    /\ calls' = [calls EXCEPT ![t] = NoCallFrame]
    /\ UNCHANGED <<lock, sys_courses, notifyVars, schedVars, greedyVars, pure>>

\* reschedule_course, lines 501-502: the conflicts go to the history and the
\* call returns failure
RescheduleCourseFail(t) ==
    /\ lock = t
    /\ frame.pc = "rs_record"
    /\ conflict_history' = conflict_history \o frame.conflicts
    /\ sys_ret' = SysRet(t, "reschedule_course", FALSE,
                         "Cannot reschedule: conflicts detected", NoCourse)
    /\ lock' = 0
    /\ frame' = NoFrame
    /\ UNCHANGED <<sys_courses, schedVars, greedyVars, pure>>
    /\ Returns(t)
    /\ NotifyAll(t)

InitSys ==
    /\ courses = EmptySchedule
    /\ validation_errors = <<>>
    /\ validation_warnings = <<>>
    /\ ret = Ret("init", TRUE, None)
    /\ hist = NoHist
    /\ g_call = NoCall
    /\ g_ret = NoReturn
    /\ scheduled_slots = NoSlots
    /\ SysIdle
    /\ calls = NoCalls
    /\ pure = NoPure

NextSys ==
    \/ CreateCourse
    \/ \E t \in Threads, course_id \in SysIds : GetCourse(t, course_id)
    \/ \E t \in Threads, course_id \in SysIds : ScheduleCourseCall(t, course_id)
    \/ \E t \in Threads : ScheduleCourseReturn(t)
    \/ \E t \in Threads, course_id \in SysIds, new_slot \in NewSlots :
            RescheduleCourseCall(t, course_id, new_slot)
    \/ \E t \in Threads : RescheduleCourseDetect(t)
    \/ \E t \in Threads : RescheduleCourseFail(t)

SpecSys == InitSys /\ [][NextSys]_vars

(***************************************************************************)
(* schedule_course of a system built with CourseSchedulingSystem(scheduler) *)
(* where the scheduler's schedule_course is any implementation of the      *)
(* abstract Scheduler.schedule_course: it returns one of the candidates or *)
(* None.  detect_conflicts is the one of GreedyScheduler.                  *)
(***************************************************************************)
\* the slots such a scheduler hands back here: one inside the windows of the
\* first template, one inside those of the second, one outside a resource's
\* window, one outside the instructor's and a resource's windows
AssignedSlots ==
    { MSlot(0, 480, 540), MSlot(0, 840, 900), MSlot(0, 1020, 1080), MSlot(1, 840, 900) }

\* Scheduler.schedule_course: its result is any candidate, or None
Scheduler_schedule_course(course, available_slots) ==
    { slot \in AssignedSlots : \E i \in 1..Len(available_slots) : available_slots[i] = slot }
        \cup {NoneSlot}

\* schedule_course, lines 448-467, with self.scheduler an abstract Scheduler
ScheduleCourseAssign(t, course_id) ==
    /\ lock = 0
    /\ IF course_id \notin DOMAIN sys_courses
       THEN /\ sys_ret' = SysRet(t, "schedule_course", FALSE, "Course not found", NoCourse)
            /\ UNCHANGED <<sys_courses, lock, frame>>
       ELSE IF sys_courses[course_id].status # "scheduled"
       THEN /\ sys_ret' = SysRet(t, "schedule_course", FALSE, "cannot reschedule", NoCourse)
            /\ UNCHANGED <<sys_courses, lock, frame>>
       ELSE \E assigned_slot \in Scheduler_schedule_course(sys_courses[course_id],
                                                           generate_available_slots) :
                IF assigned_slot = NoneSlot
                THEN /\ sys_ret' = SysRet(t, "schedule_course", FALSE,
                                          "No available time slot found for this course", NoCourse)
                     /\ UNCHANGED <<sys_courses, lock, frame>>
                ELSE /\ Len(conflict_history)
                            + Len(detect_conflicts([sys_courses[course_id]
                                                        EXCEPT !.schedule = assigned_slot]))
                                <= MaxHistory
                     /\ sys_courses' = SetSchedule(course_id, assigned_slot)
                     /\ lock' = t
                     /\ frame' = [NoFrame EXCEPT !.op = "schedule_course", !.pc = "sc_detect",
                                                 !.course_id = course_id,
                                                 !.new_slot = assigned_slot]
                     /\ UNCHANGED sys_ret
    /\ UNCHANGED <<conflict_history, schedVars, greedyVars, pure>>
    /\ Returns(t)
    /\ NotifyAll(t)

NextAnyScheduler ==
    \/ CreateCourse
    \/ \E t \in Threads, course_id \in SysIds : ScheduleCourseAssign(t, course_id)
    \/ \E t \in Threads : ScheduleCourseReturn(t)

SpecAnyScheduler == InitSys /\ [][NextAnyScheduler]_vars

(***************************************************************************)
(* schedule_course and reschedule_course on courses one of which has an    *)
(* instructor who is free on Saturday only, so that no slot of the grid    *)
(* fits it.                                                                *)
(***************************************************************************)
Instructor3 == SysInstructor("instr_003", "Dr. Lee", <<MSlot(5, 540, 720)>>)

NoFitTemplates ==
    { [name |-> "Python Programming Basics", instructor |-> Instructor1,
       capacity |-> 30, resources |-> <<SysClassroomA>>],
      [name |-> "Weekend Workshop", instructor |-> Instructor3,
       capacity |-> 15, resources |-> <<>>] }

NextNoFit ==
    \/ CreateCourseFrom(NoFitTemplates)
    \/ \E t \in Threads, course_id \in SysIds : ScheduleCourseCall(t, course_id)
    \/ \E t \in Threads : ScheduleCourseReturn(t)
    \/ \E t \in Threads, course_id \in SysIds, new_slot \in NewSlots :
            RescheduleCourseCall(t, course_id, new_slot)
    \/ \E t \in Threads : RescheduleCourseDetect(t)
    \/ \E t \in Threads : RescheduleCourseFail(t)

SpecNoFit == InitSys /\ [][NextNoFit]_vars

-----------------------------------------------------------------------------
(* The status of a course: start_course, complete_course and cancel_course.
   Each runs whole under the lock and writes course.status at most once, so
   each is one step, taken when the lock is free. *)

SetStatus(id, status) == [sys_courses EXCEPT ![id].status = status]

\* mutant: the status test of start_course is left out
StartCourse_unchecked(t, course_id) ==
    /\ lock = 0
    /\ IF course_id \notin DOMAIN sys_courses
       THEN /\ sys_ret' = SysRet(t, "start_course", FALSE, "Course not found", NoCourse)
            /\ UNCHANGED sys_courses
       ELSE /\ sys_courses' = SetStatus(course_id, "ongoing")
            /\ sys_ret' = Notified(
                    SysRet(t, "start_course", TRUE, "Course started successfully", NoCourse),
                    "Course '" \o sys_courses[course_id].name \o "' has started",
                    sys_courses[course_id].instructor.email)
    /\ UNCHANGED <<conflict_history, lock, frame, schedVars, greedyVars, pure>>
    /\ Returns(t)
    /\ NotifyAll(t)

\* start_course
StartCourse(t, course_id) ==
    /\ lock = 0
    /\ IF course_id \notin DOMAIN sys_courses
       THEN /\ sys_ret' = SysRet(t, "start_course", FALSE, "Course not found", NoCourse)
            /\ UNCHANGED sys_courses
       ELSE IF sys_courses[course_id].status # "scheduled"
       THEN /\ sys_ret' = SysRet(t, "start_course", FALSE,
                                 "Cannot start course with status "
                                    \o sys_courses[course_id].status, NoCourse)
            /\ UNCHANGED sys_courses
       ELSE /\ sys_courses' = SetStatus(course_id, "ongoing")
            /\ sys_ret' = Notified(
                    SysRet(t, "start_course", TRUE, "Course started successfully", NoCourse),
                    "Course '" \o sys_courses[course_id].name \o "' has started",
                    sys_courses[course_id].instructor.email)
    /\ UNCHANGED <<conflict_history, lock, frame, schedVars, greedyVars, pure>>
    /\ Returns(t)
    /\ NotifyAll(t)

\* complete_course
CompleteCourse(t, course_id) ==
    /\ lock = 0
    /\ IF course_id \notin DOMAIN sys_courses
       THEN /\ sys_ret' = SysRet(t, "complete_course", FALSE, "Course not found", NoCourse)
            /\ UNCHANGED sys_courses
       ELSE IF sys_courses[course_id].status # "ongoing"
       THEN /\ sys_ret' = SysRet(t, "complete_course", FALSE,
                                 "Cannot complete course with status "
                                    \o sys_courses[course_id].status, NoCourse)
            /\ UNCHANGED sys_courses
       ELSE /\ sys_courses' = SetStatus(course_id, "completed")
            /\ sys_ret' = Notified(
                    SysRet(t, "complete_course", TRUE,
                           "Course completed successfully", NoCourse),
                    "Course '" \o sys_courses[course_id].name \o "' has been completed",
                    sys_courses[course_id].instructor.email)
    /\ UNCHANGED <<conflict_history, lock, frame, schedVars, greedyVars, pure>>
    /\ Returns(t)
    /\ NotifyAll(t)

\* mutant: cancel_course reports success for an id it does not know
CancelCourse_unknown_ok(t, course_id) ==
    /\ lock = 0
    /\ IF course_id \notin DOMAIN sys_courses
       THEN /\ sys_ret' = SysRet(t, "cancel_course", TRUE,
                                 "Course cancelled successfully", NoCourse)
            /\ UNCHANGED sys_courses
       ELSE /\ sys_courses' = SetStatus(course_id, "cancelled")
            /\ sys_ret' = Notified(
                    SysRet(t, "cancel_course", TRUE,
                           "Course cancelled successfully", NoCourse),
                    "Course '" \o sys_courses[course_id].name \o "' has been cancelled",
                    sys_courses[course_id].instructor.email)
    /\ UNCHANGED <<conflict_history, lock, frame, schedVars, greedyVars, pure>>
    /\ Returns(t)
    /\ NotifyAll(t)

\* cancel_course: no test of the status before line 553
CancelCourse(t, course_id) ==
    /\ lock = 0
    /\ IF course_id \notin DOMAIN sys_courses
       THEN /\ sys_ret' = SysRet(t, "cancel_course", FALSE, "Course not found", NoCourse)
            /\ UNCHANGED sys_courses
       ELSE /\ sys_courses' = SetStatus(course_id, "cancelled")
            /\ sys_ret' = Notified(
                    SysRet(t, "cancel_course", TRUE,
                           "Course cancelled successfully", NoCourse),
                    "Course '" \o sys_courses[course_id].name \o "' has been cancelled",
                    sys_courses[course_id].instructor.email)
    /\ UNCHANGED <<conflict_history, lock, frame, schedVars, greedyVars, pure>>
    /\ Returns(t)
    /\ NotifyAll(t)

NextStatus ==
    \/ CreateCourse
    \/ \E t \in Threads, course_id \in SysIds : StartCourse(t, course_id)
    \/ \E t \in Threads, course_id \in SysIds : CompleteCourse(t, course_id)
    \/ \E t \in Threads, course_id \in SysIds : CancelCourse(t, course_id)

SpecStatus == InitSys /\ [][NextStatus]_vars

\* enroll_student, lines 565-576
EnrollStudent(t, course_id) ==
    /\ lock = 0
    /\ IF course_id \notin DOMAIN sys_courses
       THEN /\ sys_ret' = SysRet(t, "enroll_student", FALSE, "Course not found", NoCourse)
            /\ UNCHANGED sys_courses
       ELSE IF sys_courses[course_id].enrolled_students >= sys_courses[course_id].capacity
       THEN /\ sys_ret' = SysRet(t, "enroll_student", FALSE,
                                 "Course is at full capacity", NoCourse)
            /\ UNCHANGED sys_courses
       ELSE /\ sys_courses[course_id].enrolled_students < MaxEnrolled
            /\ sys_courses' = [sys_courses EXCEPT ![course_id].enrolled_students = @ + 1]
            /\ sys_ret' = SysRet(t, "enroll_student", TRUE,
                                 "Student enrolled successfully", NoCourse)
    /\ UNCHANGED <<conflict_history, lock, frame, schedVars, greedyVars, pure>>
    /\ Returns(t)
    /\ NotifyAll(t)

(***************************************************************************)
(* The mutation entry points of CourseSchedulingSystem together, on a      *)
(* system in which create_course is called once: the id it returned is     *)
(* registered, every other id is not.                                      *)
(***************************************************************************)
CreateCourseOnce ==
    /\ DOMAIN sys_courses = {}
    /\ CreateCourse
    /\ DOMAIN sys_courses' = {"course_1"}

NextEntry ==
    \/ CreateCourseOnce
    \/ \E t \in Threads, course_id \in SysIds : ScheduleCourseCall(t, course_id)
    \/ \E t \in Threads : ScheduleCourseReturn(t)
    \/ \E t \in Threads, course_id \in SysIds, new_slot \in NewSlots :
            RescheduleCourseCall(t, course_id, new_slot)
    \/ \E t \in Threads : RescheduleCourseDetect(t)
    \/ \E t \in Threads : RescheduleCourseFail(t)
    \/ \E t \in Threads, course_id \in SysIds : StartCourse(t, course_id)
    \/ \E t \in Threads, course_id \in SysIds : CompleteCourse(t, course_id)
    \/ \E t \in Threads, course_id \in SysIds : CancelCourse(t, course_id)
    \/ \E t \in Threads, course_id \in SysIds : EnrollStudent(t, course_id)

SpecEntry == InitSys /\ [][NextEntry]_vars

(***************************************************************************)
(* Threads calling enroll_student on one system, the body of the call in   *)
(* two steps under the lock: the lookup and the capacity test, then the    *)
(* increment and the return.                                               *)
(***************************************************************************)
\* the arguments given to create_course here: courses of capacity 0, 1 and 2
EnrollTemplates ==
    { [name |-> "Closed Course", instructor |-> Instructor1,
       capacity |-> 0, resources |-> <<>>],
      [name |-> "Tutorial", instructor |-> Instructor1,
       capacity |-> 1, resources |-> <<>>],
      [name |-> "Duo Workshop", instructor |-> Instructor2,
       capacity |-> 2, resources |-> <<>>] }

CreateCourseEnroll ==
    /\ DOMAIN sys_courses = {}
    /\ CreateCourseFrom(EnrollTemplates)
    /\ DOMAIN sys_courses' = {"course_1"}

\* thread t calls enroll_student(course_id, student_id) and reaches
\* 'with self.lock'
EnrollStudentCall(t, course_id) ==
    /\ calls[t].pc = "idle"
    /\ calls' = [calls EXCEPT ![t] = Called("enroll_student", course_id, NoneSlot)]
    /\ UNCHANGED <<schedVars, greedyVars, sysVars, pure>>

\* mutant: the body of enroll_student runs without waiting for the lock
EnrollStudentTest_unlocked(t) ==
    /\ calls[t].pc = "called"
    /\ calls[t].op = "enroll_student"
    /\ LET course_id == calls[t].course_id
       IN  IF course_id \notin DOMAIN sys_courses
           THEN /\ sys_ret' = SysRet(t, "enroll_student", FALSE, "Course not found", NoCourse)
                /\ calls' = [calls EXCEPT ![t] = NoCallFrame]
                /\ UNCHANGED lock
           ELSE IF sys_courses[course_id].enrolled_students >= sys_courses[course_id].capacity
           THEN /\ sys_ret' = SysRet(t, "enroll_student", FALSE,
                                     "Course is at full capacity", NoCourse)
                /\ calls' = [calls EXCEPT ![t] = NoCallFrame]
                /\ UNCHANGED lock
           ELSE /\ lock' = t
                /\ calls' = [calls EXCEPT ![t].pc = "increment"]
                /\ UNCHANGED sys_ret
    /\ UNCHANGED <<sys_courses, conflict_history, frame, notifyVars, schedVars,
                   greedyVars, pure>>

\* enroll_student, lines 567-573: the lock is acquired, then the lookup and
\* the capacity test with their failure returns
EnrollStudentTest(t) ==
    /\ calls[t].pc = "called"
    /\ calls[t].op = "enroll_student"
    /\ lock = 0
    /\ LET course_id == calls[t].course_id
       IN  IF course_id \notin DOMAIN sys_courses
           THEN /\ sys_ret' = SysRet(t, "enroll_student", FALSE, "Course not found", NoCourse)
                /\ calls' = [calls EXCEPT ![t] = NoCallFrame]
                /\ UNCHANGED lock
           ELSE IF sys_courses[course_id].enrolled_students >= sys_courses[course_id].capacity
           THEN /\ sys_ret' = SysRet(t, "enroll_student", FALSE,
                                     "Course is at full capacity", NoCourse)
                /\ calls' = [calls EXCEPT ![t] = NoCallFrame]
                /\ UNCHANGED lock
           ELSE /\ lock' = t
                /\ calls' = [calls EXCEPT ![t].pc = "increment"]
                /\ UNCHANGED sys_ret
    /\ UNCHANGED <<sys_courses, conflict_history, frame, notifyVars, schedVars,
                   greedyVars, pure>>

\* enroll_student, lines 575-576: course.enrolled_students += 1, the success
\* return, and the lock is released
EnrollStudentIncrement(t) ==
    /\ calls[t].pc = "increment"
    /\ sys_courses' = [sys_courses EXCEPT ![calls[t].course_id].enrolled_students = @ + 1]
    /\ sys_ret' = SysRet(t, "enroll_student", TRUE, "Student enrolled successfully", NoCourse)
    /\ lock' = 0
    /\ calls' = [calls EXCEPT ![t] = NoCallFrame]
    /\ UNCHANGED <<conflict_history, frame, notifyVars, schedVars, greedyVars, pure>>

NextEnroll ==
    \/ CreateCourseEnroll
    \/ \E t \in Threads, course_id \in SysIds : EnrollStudentCall(t, course_id)
    \/ \E t \in Threads : EnrollStudentTest(t)
    \/ \E t \in Threads : EnrollStudentIncrement(t)

SpecEnroll == InitSys /\ [][NextEnroll]_vars

(***************************************************************************)
(* schedule_course of the default system next to                           *)
(* update_instructor_availability, which replaces the availability list of *)
(* a registered instructor; the courses of the instructor hold the same    *)
(* Instructor object.                                                      *)
(***************************************************************************)
\* the instructors registered with register_instructor
RegisteredInstructors == {"instr_001", "instr_002"}

\* mutant: update_instructor_availability without the lock
UpdateInstructorAvailability_unlocked(t, instructor_id, slots) ==
    /\ IF instructor_id \notin RegisteredInstructors
       THEN /\ sys_ret' = SysRet(t, "update_instructor_availability", FALSE, "", NoCourse)
            /\ UNCHANGED sys_courses
       ELSE /\ sys_courses' =
                    [id \in DOMAIN sys_courses |->
                        IF sys_courses[id].instructor.instructor_id = instructor_id
                        THEN [sys_courses[id] EXCEPT !.instructor.available_slots = slots]
                        ELSE sys_courses[id]]
            /\ sys_ret' = SysRet(t, "update_instructor_availability", TRUE, "", NoCourse)
    /\ UNCHANGED <<conflict_history, lock, frame, notifyVars, schedVars, greedyVars,
                   calls, pure>>

\* update_instructor_availability, lines 395-404
UpdateInstructorAvailability(t, instructor_id, slots) ==
    /\ lock = 0
    /\ IF instructor_id \notin RegisteredInstructors
       THEN /\ sys_ret' = SysRet(t, "update_instructor_availability", FALSE, "", NoCourse)
            /\ UNCHANGED sys_courses
       ELSE /\ sys_courses' =
                    [id \in DOMAIN sys_courses |->
                        IF sys_courses[id].instructor.instructor_id = instructor_id
                        THEN [sys_courses[id] EXCEPT !.instructor.available_slots = slots]
                        ELSE sys_courses[id]]
            /\ sys_ret' = SysRet(t, "update_instructor_availability", TRUE, "", NoCourse)
    /\ UNCHANGED <<conflict_history, lock, frame, notifyVars, schedVars, greedyVars,
                   calls, pure>>

\* the slots arguments given to update_instructor_availability
UpdateSlots ==
    { <<>>, <<MSlot(0, 510, 570)>>, <<MSlot(5, 540, 720)>>,
      <<MSlot(2, 900, 960), MSlot(0, 600, 660)>> }

\* the arguments given to create_course here: the two courses of the system
\* and a course that requires a resource without availability hours
AgreeTemplates ==
    SysTemplates \cup
    { [name |-> "Remote Reading Group", instructor |-> Instructor1,
       capacity |-> 10, resources |-> <<OnlineA>>] }

CreateCourseAgree ==
    /\ DOMAIN sys_courses = {}
    /\ CreateCourseFrom(AgreeTemplates)
    /\ DOMAIN sys_courses' = {"course_1"}

NextAgree ==
    \/ CreateCourseAgree
    \/ \E t \in Threads, course_id \in SysIds : ScheduleCourseCall(t, course_id)
    \/ \E t \in Threads : ScheduleCourseReturn(t)
    \/ \E t \in Threads, instructor_id \in {"instr_001", "instr_002", "instr_003"},
          slots \in UpdateSlots :
            UpdateInstructorAvailability(t, instructor_id, slots)

SpecAgree == InitSys /\ [][NextAgree]_vars

(***************************************************************************)
(* The operations of one system with notification handlers registered, the *)
(* same handler possibly more than once.                                   *)
(***************************************************************************)
\* register_notification_handler: the handler is appended to the list
RegisterNotificationHandler(handler) ==
    /\ Len(notification_handlers) < MaxHandlers
    /\ notification_handlers' = Append(notification_handlers, handler)
    /\ UNCHANGED <<sys_courses, conflict_history, lock, frame, sys_ret,
                   sent_notifications, schedVars, greedyVars, calls, pure>>

NotifySlots == {MSlot(0, 540, 600), MSlot(5, 540, 600)}

NextNotify ==
    \/ CreateCourseOnce
    \/ \E handler \in Handlers : RegisterNotificationHandler(handler)
    \/ \E t \in Threads, course_id \in SysIds : ScheduleCourseCall(t, course_id)
    \/ \E t \in Threads : ScheduleCourseReturn(t)
    \/ \E t \in Threads, course_id \in SysIds, new_slot \in NotifySlots :
            RescheduleCourseCall(t, course_id, new_slot)
    \/ \E t \in Threads : RescheduleCourseDetect(t)
    \/ \E t \in Threads : RescheduleCourseFail(t)
    \/ \E t \in Threads, course_id \in SysIds : StartCourse(t, course_id)
    \/ \E t \in Threads, course_id \in SysIds : CompleteCourse(t, course_id)
    \/ \E t \in Threads, course_id \in SysIds : CancelCourse(t, course_id)

SpecNotify == InitSys /\ [][NextNotify]_vars

(***************************************************************************)
(* Threads calling the mutating operations of one system.  calls[t] is the *)
(* position of thread t: idle, or in a call (pc "called") that waits at    *)
(* 'with self.lock' while lock # t and runs under the lock while lock = t. *)
(***************************************************************************)
\* the arguments given to create_course here: a seminar of one seat, and a
\* tutorial whose instructor is free on Saturday only
LiveTemplates ==
    { [name |-> "Data Science Seminar", instructor |-> Instructor2,
       capacity |-> 1, resources |-> <<SysLabA>>],
      [name |-> "Weekend Tutorial", instructor |-> Instructor3,
       capacity |-> 1, resources |-> <<>>] }

\* the calls the threads make: course_1 is the registered course, course_2
\* is not registered
LiveCalls ==
    { Called("schedule_course", "course_1", NoneSlot),
      Called("reschedule_course", "course_1", MSlot(0, 540, 600)),
      Called("start_course", "course_1", NoneSlot),
      Called("complete_course", "course_1", NoneSlot),
      Called("cancel_course", "course_2", NoneSlot),
      Called("enroll_student", "course_1", NoneSlot) }

\* the number of conflicts the call will record if it fails
ConflictsOf(call) ==
    IF call.pc = "called" /\ call.op = "reschedule_course"
          /\ call.course_id \in DOMAIN sys_courses
    THEN Len(detect_conflicts([sys_courses[call.course_id]
                                    EXCEPT !.schedule = call.new_slot]))
    ELSE 0

RECURSIVE PendingConflicts(_)
PendingConflicts(T) ==
    IF T = {} THEN 0
    ELSE LET t == CHOOSE x \in T : TRUE
         IN  ConflictsOf(calls[t]) + PendingConflicts(T \ {t})

CreateCourseLive ==
    /\ DOMAIN sys_courses = {}
    /\ CreateCourseFrom(LiveTemplates)
    /\ DOMAIN sys_courses' = {"course_1"}

\* thread t calls an operation and reaches 'with self.lock'; calls are made
\* while the conflict history has room for what the calls under way may record
CallOperation(t) ==
    /\ calls[t].pc = "idle"
    /\ DOMAIN sys_courses # {}
    /\ \E call \in LiveCalls :
        /\ Len(conflict_history) + PendingConflicts(Threads) + ConflictsOf(call)
                <= MaxHistory
        /\ calls' = [calls EXCEPT ![t] = call]
    /\ UNCHANGED <<schedVars, greedyVars, sysVars, pure>>

\* thread t acquires the lock and runs its operation, to its return or to
\* its next step under the lock
AcquireLock(t) ==
    /\ calls[t].pc = "called"
    /\ \/ calls[t].op = "schedule_course" /\ ScheduleCourseCall(t, calls[t].course_id)
       \/ /\ calls[t].op = "reschedule_course"
          /\ RescheduleCourseCall(t, calls[t].course_id, calls[t].new_slot)
       \/ calls[t].op = "start_course" /\ StartCourse(t, calls[t].course_id)
       \/ calls[t].op = "complete_course" /\ CompleteCourse(t, calls[t].course_id)
       \/ calls[t].op = "cancel_course" /\ CancelCourse(t, calls[t].course_id)
       \/ calls[t].op = "enroll_student" /\ EnrollStudent(t, calls[t].course_id)

\* thread t goes on under the lock
RunLocked(t) ==
    \/ ScheduleCourseReturn(t)
    \/ RescheduleCourseDetect(t)
    \/ RescheduleCourseFail(t)

NextLive ==
    \/ CreateCourseLive
    \/ \E t \in Threads : CallOperation(t)
    \/ \E t \in Threads : AcquireLock(t)
    \/ \E t \in Threads : RunLocked(t)

\* a thread under the lock keeps running, and a thread that waits for a lock
\* that is free again and again gets it
SpecLive ==
    /\ InitSys
    /\ [][NextLive]_vars
    /\ \A t \in Threads : WF_vars(RunLocked(t))
    /\ \A t \in Threads : SF_vars(AcquireLock(t))

-----------------------------------------------------------------------------
(* The two overlap tests as pure functions of their arguments, in the
   representation each module gives a time of day: scheduler.py holds
   datetime.time values, ordered by hour and then minute; main_system.py
   holds "HH:MM" strings, ordered as Python orders str, code point by code
   point.  A time is given here as [hour, minute]; a string is the sequence
   of its code points. *)

\* datetime.time.__le__
time_le(a, b) == a.hour < b.hour \/ (a.hour = b.hour /\ a.minute <= b.minute)

\* f"{hour:02d}:{minute:02d}", the HH:MM strings of main_system.py
hhmm(t) ==
    <<48 + (t.hour \div 10), 48 + (t.hour % 10), 58,
      48 + (t.minute \div 10), 48 + (t.minute % 10)>>

\* str.__le__
RECURSIVE str_le(_, _)
str_le(a, b) ==
    IF a = <<>> THEN TRUE
    ELSE IF b = <<>> THEN FALSE
    ELSE IF Head(a) # Head(b) THEN Head(a) < Head(b)
    ELSE str_le(Tail(a), Tail(b))

\* mutant: only the first of the two disjoint cases is tested
overlaps_with_time_one_sided(self, other) ==
    IF self.day # other.day
    THEN FALSE
    ELSE ~time_le(self.end_time, other.start_time)

\* TimeSlot.overlaps_with of scheduler.py on datetime.time values
overlaps_with_time(self, other) ==
    IF self.day # other.day
    THEN FALSE
    ELSE ~(time_le(self.end_time, other.start_time)
            \/ time_le(other.end_time, self.start_time))

\* mutant: strict comparisons, so that touching slots overlap
slots_overlap_str_closed(slot1, slot2) ==
    IF slot1.day_of_week # slot2.day_of_week
    THEN FALSE
    ELSE ~((slot1.end_time # slot2.start_time /\ str_le(slot1.end_time, slot2.start_time))
            \/ (slot1.start_time # slot2.end_time /\ str_le(slot2.end_time, slot1.start_time)))

\* GreedyScheduler._slots_overlap on "HH:MM" strings
slots_overlap_str(slot1, slot2) ==
    IF slot1.day_of_week # slot2.day_of_week
    THEN FALSE
    ELSE ~(str_le(slot1.end_time, slot2.start_time)
            \/ str_le(slot2.end_time, slot1.start_time))

\* the times of day and the slots given to the two functions; a slot may
\* have start >= end, as neither constructor checks it
OvTimes == [hour : {8, 9, 10}, minute : {0, 30}]

OvSlots == [day : {0, 1}, start_time : OvTimes, end_time : OvTimes]

\* the TimeSlot of main_system.py for a slot
StrSlot(slot) ==
    [day_of_week |-> slot.day, start_time |-> hhmm(slot.start_time),
     end_time |-> hhmm(slot.end_time)]

InitOverlap ==
    /\ courses = EmptySchedule
    /\ validation_errors = <<>>
    /\ validation_warnings = <<>>
    /\ ret = Ret("init", TRUE, None)
    /\ hist = NoHist
    /\ g_call = NoCall
    /\ g_ret = NoReturn
    /\ scheduled_slots = NoSlots
    /\ SysIdle
    /\ calls = NoCalls
    /\ pure \in [fn : {"overlap"}, args : OvSlots \X OvSlots, out : {NoOut}]

\* A.overlaps_with(B), B.overlaps_with(A), _slots_overlap(A, B) and
\* _slots_overlap(B, A) for the pair A, B of the call
ApplyOverlap ==
    /\ pure.fn = "overlap"
    /\ pure.out = NoOut
    /\ LET A == pure.args[1]
           B == pure.args[2]
       IN  pure' = [pure EXCEPT !.out =
                        [pending |-> FALSE,
                         a_b |-> overlaps_with_time(A, B),
                         b_a |-> overlaps_with_time(B, A),
                         g_a_b |-> slots_overlap_str(StrSlot(A), StrSlot(B)),
                         g_b_a |-> slots_overlap_str(StrSlot(B), StrSlot(A))]]
    /\ UNCHANGED <<schedVars, greedyVars, sysVars, calls>>

NextOverlap == ApplyOverlap

SpecOverlap == InitOverlap /\ [][NextOverlap]_vars

(***************************************************************************)
(* CourseSchedule.__eq__ and __hash__ as pure functions of two records.    *)
(***************************************************************************)
\* TimeSlot.__eq__
TimeSlot_eq(self, other) ==
    /\ self.day = other.day
    /\ self.start_time = other.start_time
    /\ self.end_time = other.end_time

\* TimeSlot.__hash__: the tuple handed to hash()
TimeSlot_hash(self) == <<self.day, self.start_time, self.end_time>>

\* CourseSchedule.__eq__
CourseSchedule_eq(self, other) ==
    /\ self.course.course_id = other.course.course_id
    /\ TimeSlot_eq(self.time_slot, other.time_slot)

\* CourseSchedule.__hash__: the tuple handed to hash()
CourseSchedule_hash(self) == <<self.course.course_id, TimeSlot_hash(self.time_slot)>>

\* the records compared
EqRecords ==
    { CourseSchedule(course, instructor, classroom, time_slot) :
        course \in Courses, instructor \in Instructors,
        classroom \in Classrooms, time_slot \in Slots }

InitEq ==
    /\ courses = EmptySchedule
    /\ validation_errors = <<>>
    /\ validation_warnings = <<>>
    /\ ret = Ret("init", TRUE, None)
    /\ hist = NoHist
    /\ g_call = NoCall
    /\ g_ret = NoReturn
    /\ scheduled_slots = NoSlots
    /\ SysIdle
    /\ calls = NoCalls
    /\ pure \in [fn : {"eq"}, args : EqRecords \X EqRecords, out : {NoOut}]

\* a == b, hash(a) and hash(b) for the pair a, b of the call
ApplyEq ==
    /\ pure.fn = "eq"
    /\ pure.out = NoOut
    /\ LET a == pure.args[1]
           b == pure.args[2]
       IN  pure' = [pure EXCEPT !.out =
                        [pending |-> FALSE,
                         eq |-> CourseSchedule_eq(a, b),
                         hash_a |-> CourseSchedule_hash(a),
                         hash_b |-> CourseSchedule_hash(b)]]
    /\ UNCHANGED <<schedVars, greedyVars, sysVars, calls>>

NextEq == ApplyEq

SpecEq == InitEq /\ [][NextEq]_vars

(***************************************************************************)
(* _generate_available_slots with its "HH:MM" strings, probed at two       *)
(* positions of the list it returns.                                       *)
(***************************************************************************)
\* f"{hour:02d}:00"
hour_string(hour) == <<48 + (hour \div 10), 48 + (hour % 10), 58, 48, 48>>

\* mutant: the hours in the outer loop, the days in the inner one
RECURSIVE grid_loops_hours_outermost(_, _)
grid_loops_hours_outermost(day, hour) ==
    IF hour >= 18 THEN <<>>
    ELSE IF day >= 5 THEN grid_loops_hours_outermost(0, hour + 1)
    ELSE <<MSlot(day, hour_string(hour), hour_string(hour + 1))>>
            \o grid_loops_hours_outermost(day + 1, hour)

\* the two loops of _generate_available_slots from (day, hour) on
RECURSIVE grid_loops(_, _)
grid_loops(day, hour) ==
    IF day >= 5 THEN <<>>
    ELSE IF hour >= 18 THEN grid_loops(day + 1, 8)
    ELSE <<MSlot(day, hour_string(hour), hour_string(hour + 1))>>
            \o grid_loops(day, hour + 1)

\* CourseSchedulingSystem._generate_available_slots, times as strings
generate_available_slots_str == grid_loops(0, 8)

\* the positions probed
GridPositions == 1..50

InitGrid ==
    /\ courses = EmptySchedule
    /\ validation_errors = <<>>
    /\ validation_warnings = <<>>
    /\ ret = Ret("init", TRUE, None)
    /\ hist = NoHist
    /\ g_call = NoCall
    /\ g_ret = NoReturn
    /\ scheduled_slots = NoSlots
    /\ SysIdle
    /\ calls = NoCalls
    /\ pure \in [fn : {"generate_available_slots"}, args : GridPositions \X GridPositions,
                  out : {NoOut}]

\* slots = self._generate_available_slots(); its length and its entries at
\* the two positions (None past the end)
ApplyGrid ==
    /\ pure.fn = "generate_available_slots"
    /\ pure.out = NoOut
    /\ LET slots == generate_available_slots_str
           at(i) == IF i <= Len(slots) THEN slots[i] ELSE NoneSlot
       IN  pure' = [pure EXCEPT !.out = [pending |-> FALSE,
                                        len |-> Len(slots),
                                        a |-> at(pure.args[1]),
                                        b |-> at(pure.args[2])]]
    /\ UNCHANGED <<schedVars, greedyVars, sysVars, calls>>

NextGrid == ApplyGrid

SpecGrid == InitGrid /\ [][NextGrid]_vars

(***************************************************************************)
(* GreedyScheduler.detect_conflicts as a pure function of the course, on a *)
(* scheduler that has or has not recorded slots of other courses.          *)
(***************************************************************************)
\* the courses handed to detect_conflicts: those of the greedy scenario, with
\* no slot or with one of the candidates as their slot
DetectCourses ==
    { [course EXCEPT !.schedule = slot] :
        course \in GCourses, slot \in GCandidates \cup {NoneSlot} }

\* self.scheduled_slots of the scheduler: what it recorded for another course
OtherScheduled ==
    {NoSlots} \cup {record_scheduled(NoSlots, [course_id |-> "course_2"], slot) :
                        slot \in {MSlot(0, 480, 540), MSlot(0, 540, 600)}}

InitDetect ==
    /\ courses = EmptySchedule
    /\ validation_errors = <<>>
    /\ validation_warnings = <<>>
    /\ ret = Ret("init", TRUE, None)
    /\ hist = NoHist
    /\ g_call = NoCall
    /\ g_ret = NoReturn
    /\ scheduled_slots \in OtherScheduled
    /\ SysIdle
    /\ calls = NoCalls
    /\ pure \in [fn : {"detect_conflicts"}, args : {<<course>> : course \in DetectCourses},
                  out : {NoOut}]

\* conflicts = detect_conflicts(course); course is the argument after the call
ApplyDetect ==
    /\ pure.fn = "detect_conflicts"
    /\ pure.out = NoOut
    /\ pure' = [pure EXCEPT !.out = [pending |-> FALSE,
                                     conflicts |-> detect_conflicts(pure.args[1]),
                                     course |-> pure.args[1]]]
    /\ UNCHANGED <<schedVars, greedyVars, sysVars, calls>>

NextDetect == ApplyDetect

SpecDetect == InitDetect /\ [][NextDetect]_vars

-----------------------------------------------------------------------------
(* Schedule.add_course called from several threads on one Schedule.  The
   class holds no lock, so a thread can be preempted between the validation
   (lines 272-275) and the write of the record (line 280).  Each thread
   makes one call, with validate_constraints left at its default True. *)

\* add_course up to line 278: the record is built and validated against
\* the schedule as it stands; a rejection is logged and returned
AddCourseValidate(t, course, instructor, classroom, time_slot) ==
    /\ calls[t].pc = "idle"
    /\ LET course_schedule == CourseSchedule(course, instructor, classroom, time_slot)
           v == validate_course_schedule(courses, course_schedule)
       IN  IF ~v.ok
           THEN /\ validation_errors' = Append(validation_errors, v.error)
                /\ calls' = [calls EXCEPT ![t] = [pc |-> "done",
                                                  course_schedule |-> course_schedule,
                                                  ok |-> FALSE, error |-> v.error]]
                /\ UNCHANGED validation_warnings
           ELSE /\ validation_warnings' = validation_warnings \o v.warnings
                /\ calls' = [calls EXCEPT ![t] = [pc |-> "commit",
                                                  course_schedule |-> course_schedule,
                                                  ok |-> TRUE, error |-> None]]
                /\ UNCHANGED validation_errors
    /\ UNCHANGED <<courses, ret, hist, greedyVars, sysVars, pure>>

\* add_course lines 280-281: the record is written and success returned
AddCourseCommit(t) ==
    /\ calls[t].pc = "commit"
    /\ courses' = Put(courses, calls[t].course_schedule.course.course_id,
                      calls[t].course_schedule)
    /\ calls' = [calls EXCEPT ![t].pc = "done"]
    /\ UNCHANGED <<validation_errors, validation_warnings, ret, hist, greedyVars, sysVars, pure>>

NextConc ==
    \/ \E t \in Threads, course \in Courses, instructor \in Instructors,
          classroom \in Classrooms, time_slot \in Slots :
            AddCourseValidate(t, course, instructor, classroom, time_slot)
    \/ \E t \in Threads : AddCourseCommit(t)

SpecConc == Init /\ [][NextConc]_vars

-----------------------------------------------------------------------------
(* Properties of the Schedule *)

SameInstructor(a, b) == a.instructor.instructor_id = b.instructor.instructor_id

SameClassroom(a, b) == a.classroom.room_id = b.classroom.room_id

\* the hard checks 1-6 of the validation pipeline, as the specification
\* states them, for a candidate against the committed records sched
PassesChecks1to6(sched, cs) ==
    /\ Course_validate(cs.course).ok
    /\ Instructor_is_available(cs.instructor, cs.time_slot)
    /\ Classroom_is_available(cs.classroom, cs.time_slot)
    /\ cs.classroom.capacity >= cs.course.required_capacity
    /\ cs.course.required_equipment \subseteq cs.classroom.special_equipment
    /\ get_weekly_hours(cs.instructor, sched) + duration_minutes(cs.time_slot)
            <= 60 * cs.instructor.max_hours_per_week

\* C1: after any sequence of validated add_course and remove_course calls, no
\* two committed records of the same instructor have overlapping slots, and
\* no two committed records of the same classroom have overlapping slots.
C1_NoDoubleBooking ==
    \A k1 \in DOMAIN courses : \A k2 \in DOMAIN courses \ {k1} :
        (SameInstructor(courses[k1], courses[k2]) \/ SameClassroom(courses[k1], courses[k2]))
            => ~overlaps_with(courses[k1].time_slot, courses[k2].time_slot)

\* two committed records share their instructor and their classroom
C1_Witness ==
    \E k1 \in DOMAIN courses : \E k2 \in DOMAIN courses \ {k1} :
        /\ SameInstructor(courses[k1], courses[k2])
        /\ SameClassroom(courses[k1], courses[k2])

\* C2: a validated add_course that returns (False, error) leaves the
\* committed mapping as it was (same count, same records), and with it every
\* instructor's weekly hours.
C2_AddCourseAtomicOnFailure ==
    [][(ret'.op = "add_course" /\ ~ret'.ok) =>
            /\ courses' = courses
            /\ Cardinality(DOMAIN courses') = Cardinality(DOMAIN courses)
            /\ \A i \in Instructors :
                    get_weekly_hours(i, courses') = get_weekly_hours(i, courses)]_vars

\* an add_course was rejected for a conflict on a schedule that holds records
C2_Witness ==
    /\ ret.op = "add_course"
    /\ ~ret.ok
    /\ ret.error.kind \in {"instructor_conflict", "classroom_double_booked"}
    /\ courses # EmptySchedule

\* C3: a validated add_course of a course for an instructor who already has
\* a committed record of another course at an overlapping slot, the candidate
\* passing checks 1-6, returns failure with the instructor conflict error and
\* leaves the committed records unaltered.
C3_DoubleBookingRejected ==
    [][\A course \in Courses, instructor \in Instructors,
          classroom \in Classrooms, time_slot \in Slots :
            LET cs == CourseSchedule(course, instructor, classroom, time_slot)
            IN  ( /\ add_course(course, instructor, classroom, time_slot, TRUE)
                  /\ PassesChecks1to6(courses, cs)
                  /\ \E k \in DOMAIN courses \ {course.course_id} :
                        /\ SameInstructor(courses[k], cs)
                        /\ overlaps_with(time_slot, courses[k].time_slot) )
                => ( /\ ~ret'.ok
                     /\ ret'.error.kind = "instructor_conflict"
                     /\ courses' = courses )]_vars

\* C4: a validated add_course whose candidate passes every hard check returns
\* success and the course is afterwards committed with the requested slot.
C4_ValidCandidateCommitted ==
    [][\A course \in Courses, instructor \in Instructors,
          classroom \in Classrooms, time_slot \in Slots :
            LET cs == CourseSchedule(course, instructor, classroom, time_slot)
            IN  ( /\ add_course(course, instructor, classroom, time_slot, TRUE)
                  /\ PassesChecks1to6(courses, cs)
                  /\ \A k \in DOMAIN courses :
                        (SameInstructor(courses[k], cs) \/ SameClassroom(courses[k], cs))
                            => ~overlaps_with(time_slot, courses[k].time_slot) )
                => ( /\ ret'.ok
                     /\ course.course_id \in DOMAIN courses'
                     /\ courses'[course.course_id] = cs )]_vars

\* C5: a validated add_course of a malformed course (empty id or name,
\* capacity <= 0, duration <= 0, sessions < 1) returns failure with the
\* self-validation message and commits nothing.
C5_MalformedCourseRejected ==
    [][\A course \in Courses, instructor \in Instructors,
          classroom \in Classrooms, time_slot \in Slots :
            ( /\ add_course(course, instructor, classroom, time_slot, TRUE)
              /\ ~Course_validate(course).ok )
                => ( /\ ~ret'.ok
                     /\ ret'.error.kind = "course_invalid"
                     /\ ret'.error.errors = Course_validate(course).errors
                     /\ courses' = courses )]_vars

\* C6: remove_course(c) followed by the validated add_course of the record
\* it deleted succeeds iff that add_course passes validation against the
\* schedule holding all the other records of before the remove, but not c.
C6_RemoveThenReadd ==
    hist.op = "readded" =>
        (ret.ok <=> validate_course_schedule(
                        [k \in DOMAIN hist.base \ {hist.rec.course.course_id} |-> hist.base[k]],
                        hist.rec).ok)

\* a removed record was added again and accepted next to another record
C6_Witness ==
    /\ hist.op = "readded"
    /\ ret.ok
    /\ Cardinality(DOMAIN courses) >= 2

\* a removed record was added again and rejected for a conflict
C6_WitnessRejected ==
    /\ hist.op = "readded"
    /\ ~ret.ok
    /\ ret.error.kind \in {"instructor_conflict", "classroom_double_booked", "exceed_max_hours"}

-----------------------------------------------------------------------------
(* Properties of the GreedyScheduler *)

\* C7: schedule_course returns the candidate of smallest index that passes
\* the scheduler's availability test (instructor and every required
\* resource): no earlier candidate passes it, and None is returned exactly
\* when no candidate passes it.
C7_FirstFit ==
    g_ret.pc = "done" =>
        LET cands == g_call.available_slots
            fits == {i \in 1..Len(cands) : check_availability(g_call.course, cands[i])}
        IN  IF fits = {}
            THEN g_ret.slot = NoneSlot
            ELSE \E i \in fits :
                    /\ \A j \in fits : i <= j
                    /\ g_ret.slot = cands[i]

\* the example of the specification: Mon 07-08, 08-09, 09-10 offered to an
\* instructor available Mon 08-12 and a room available Mon 08-18 gives 08-09
C7_Witness ==
    /\ g_ret.pc = "done"
    /\ g_call.available_slots = <<MSlot(0, 420, 480), MSlot(0, 480, 540), MSlot(0, 540, 600)>>
    /\ g_call.course.instructor.available_slots = <<Mon0812>>
    /\ g_call.course.required_resources = <<ClassroomA>>
    /\ g_ret.slot = MSlot(0, 480, 540)

\* C13: on a freshly constructed Schedule get_validation_report returns
\* is_valid true, no errors, no warnings, total_courses 0 and a summary with
\* total_courses 0 and empty by-day, by-instructor, by-classroom and conflict
\* collections.  Stated for every state with no record and empty logs, the
\* fresh Schedule being the first of them.
C13_EmptyScheduleReport ==
    (courses = EmptySchedule /\ validation_errors = <<>> /\ validation_warnings = <<>>)
        => get_validation_report =
                [is_valid |-> TRUE,
                 errors |-> <<>>,
                 warnings |-> <<>>,
                 total_courses |-> 0,
                 summary |-> [total_courses |-> 0,
                              by_day |-> <<>>,
                              by_instructor |-> <<>>,
                              by_classroom |-> <<>>,
                              conflicts |-> [instructor |-> {}, classroom |-> {}]]]

\* the Schedule as __init__ leaves it
C13_Witness ==
    /\ ret.op = "init"
    /\ courses = EmptySchedule
    /\ validation_errors = <<>>
    /\ validation_warnings = <<>>

\* the result of each hard check of the pipeline for a candidate, check 1
\* being the course's self-validation as the specification states it
HardCheck(n, sched, cs) ==
    CASE n = 1 -> IF Course_validate(cs.course).ok
                  THEN Pass
                  ELSE Fail(Msg("course_invalid", "", NoSlot, <<>>, {},
                                Course_validate(cs.course).errors))
      [] n = 2 -> validate_instructor_availability(cs.instructor, cs.time_slot)
      [] n = 3 -> validate_classroom_availability(cs.classroom, cs.time_slot)
      [] n = 4 -> validate_classroom_capacity(cs.classroom, cs.course)
      [] n = 5 -> validate_classroom_equipment(cs.classroom, cs.course)
      [] n = 6 -> validate_instructor_hours(cs.instructor, cs, sched)
      [] n = 7 -> validate_no_instructor_conflicts(cs.instructor, cs.time_slot, sched)
      [] n = 8 -> validate_no_classroom_conflicts(cs.classroom, cs.time_slot, sched)

HardViolations(sched, cs) == {n \in 1..8 : ~HardCheck(n, sched, cs).ok}

LowestViolation(sched, cs) ==
    CHOOSE n \in HardViolations(sched, cs) : \A m \in HardViolations(sched, cs) : n <= m

\* C16: the pipeline is fail-fast in the order 1 course self-validation,
\* 2 instructor availability, 3 resource availability, 4 capacity,
\* 5 equipment, 6 weekly hours, 7 instructor overlap, 8 resource overlap:
\* when a candidate violates several hard constraints, add_course returns
\* the message of the lowest-numbered violated check and appends exactly
\* that message to the error log.
C16_FailFastOrder ==
    [][\A course \in Courses, instructor \in Instructors,
          classroom \in Classrooms, time_slot \in Slots :
            LET cs == CourseSchedule(course, instructor, classroom, time_slot)
            IN  ( /\ add_course(course, instructor, classroom, time_slot, TRUE)
                  /\ Cardinality(HardViolations(courses, cs)) >= 2 )
                => LET error == HardCheck(LowestViolation(courses, cs), courses, cs).error
                   IN  /\ ~ret'.ok
                       /\ ret'.error = error
                       /\ validation_errors' = Append(validation_errors, error)]_vars

NonPreferredDay(cs) ==
    cs.course.preferred_days # {} /\ cs.time_slot.day \notin cs.course.preferred_days

\* C17: the preferred-days check is soft.  A candidate that passes the hard
\* checks 1-8 and whose day is not among the course's non-empty preferred
\* days is committed and add_course returns success, the violation going to
\* the warning log only and never to the error log; when the preferred days
\* are empty or contain the candidate's day, no warning is appended.
C17_PreferredDaysSoft ==
    [][\A course \in Courses, instructor \in Instructors,
          classroom \in Classrooms, time_slot \in Slots :
            LET cs == CourseSchedule(course, instructor, classroom, time_slot)
            IN  add_course(course, instructor, classroom, time_slot, TRUE)
                => /\ (HardViolations(courses, cs) = {} /\ NonPreferredDay(cs))
                        => /\ ret'.ok
                           /\ course.course_id \in DOMAIN courses'
                           /\ courses'[course.course_id] = cs
                           /\ validation_errors' = validation_errors
                           /\ validation_warnings' =
                                Append(validation_warnings,
                                       validate_preferred_days(course, time_slot).error)
                   /\ ~NonPreferredDay(cs) => validation_warnings' = validation_warnings]_vars

\* the committed minutes of every instructor are within the weekly cap
LoadBounded ==
    \A instructor \in Instructors :
        get_weekly_hours(instructor, courses) <= 60 * instructor.max_hours_per_week

\* C18: bounded instructor load.  In every state reached by validated
\* add_course and remove_course calls, the durations of the committed
\* records of an instructor sum to at most the instructor's max weekly
\* hours; a candidate whose duration added to the committed hours exceeds
\* the cap is rejected, and one that makes the total exactly the cap (and
\* violates no other hard check) is accepted.
C18_BoundedInstructorLoad ==
    /\ []LoadBounded
    /\ [][\A course \in Courses, instructor \in Instructors,
             classroom \in Classrooms, time_slot \in Slots :
            LET cs == CourseSchedule(course, instructor, classroom, time_slot)
                new_total == get_weekly_hours(instructor, courses)
                                + duration_minutes(time_slot)
            IN  add_course(course, instructor, classroom, time_slot, TRUE)
                => /\ new_total > 60 * instructor.max_hours_per_week
                        => (~ret'.ok /\ courses' = courses)
                   /\ (new_total = 60 * instructor.max_hours_per_week
                            /\ HardViolations(courses, cs) = {})
                        => (/\ ret'.ok
                            /\ course.course_id \in DOMAIN courses'
                            /\ courses'[course.course_id] = cs)]_vars

\* every committed record fits its classroom in capacity and equipment
CapacityAndEquipmentMet ==
    \A k \in DOMAIN courses :
        /\ courses[k].classroom.capacity >= courses[k].course.required_capacity
        /\ courses[k].course.required_equipment \subseteq courses[k].classroom.special_equipment

\* C19: capacity and equipment satisfaction.  Every record committed by a
\* validated add_course has classroom capacity >= the course's required
\* capacity and classroom equipment a superset of the required equipment; a
\* candidate that passes checks 1-3 and violates the capacity check is
\* rejected with the capacity error, and one that passes checks 1-4 and
\* violates the equipment check is rejected with the missing-equipment error.
C19_CapacityAndEquipment ==
    /\ []CapacityAndEquipmentMet
    /\ [][\A course \in Courses, instructor \in Instructors,
             classroom \in Classrooms, time_slot \in Slots :
            LET cs == CourseSchedule(course, instructor, classroom, time_slot)
                violated == HardViolations(courses, cs)
            IN  add_course(course, instructor, classroom, time_slot, TRUE)
                => /\ (violated # {} /\ LowestViolation(courses, cs) = 4)
                        => (/\ ~ret'.ok
                            /\ ret'.error.kind = "capacity"
                            /\ courses' = courses)
                   /\ (violated # {} /\ LowestViolation(courses, cs) = 5)
                        => (/\ ~ret'.ok
                            /\ ret'.error.kind = "missing_equipment"
                            /\ courses' = courses)]_vars

\* C20: availability of committed records.  Every record committed by a
\* validated add_course has a slot that overlaps no entry of its
\* instructor's unavailable slots and, when its classroom declares
\* availability windows, lies inside one of them (same day, slot.start >=
\* window.start, slot.end <= window.end); a classroom with an empty
\* availability list accepts every slot.
C20_CommittedRecordsAvailable ==
    /\ \A k \in DOMAIN courses :
        LET cs == courses[k]
        IN  /\ \A i \in 1..Len(cs.instructor.unavailable_slots) :
                    ~overlaps_with(cs.time_slot, cs.instructor.unavailable_slots[i])
            /\ cs.classroom.available_slots # <<>>
                => \E i \in 1..Len(cs.classroom.available_slots) :
                        LET window == cs.classroom.available_slots[i]
                        IN  /\ cs.time_slot.day = window.day
                            /\ cs.time_slot.start_time >= window.start_time
                            /\ cs.time_slot.end_time <= window.end_time
    /\ \A classroom \in Classrooms, time_slot \in Slots :
        classroom.available_slots = <<>>
            => validate_classroom_availability(classroom, time_slot).ok

\* a record is committed in a classroom that declares a window, for an
\* instructor with an unavailable slot, next to one in a classroom with none
C20_Witness ==
    \E k1, k2 \in DOMAIN courses :
        /\ courses[k1].classroom.available_slots # <<>>
        /\ courses[k1].instructor.unavailable_slots # <<>>
        /\ courses[k2].classroom.available_slots = <<>>

-----------------------------------------------------------------------------
(* Properties of the overlap tests *)

\* C14: overlap is symmetric.  For every pair of slots A and B,
\* A.overlaps_with(B) = B.overlaps_with(A) and
\* _slots_overlap(A, B) = _slots_overlap(B, A).
C14_OverlapSymmetric ==
    (pure.fn = "overlap" /\ pure.out # NoOut)
        => /\ pure.out.a_b = pure.out.b_a
           /\ pure.out.g_a_b = pure.out.g_b_a

\* two different slots of one day, both with start < end, were compared and
\* found to overlap
C14_Witness ==
    /\ pure.fn = "overlap"
    /\ pure.out # NoOut
    /\ pure.args[1] # pure.args[2]
    /\ pure.args[1].day = pure.args[2].day
    /\ pure.args[1].start_time # pure.args[1].end_time
    /\ time_le(pure.args[1].start_time, pure.args[1].end_time)
    /\ pure.args[2].start_time # pure.args[2].end_time
    /\ time_le(pure.args[2].start_time, pure.args[2].end_time)
    /\ pure.out.a_b
    /\ pure.out.g_a_b

minutes(t) == 60 * t.hour + t.minute

MinuteSlot(slot) == TimeSlot(slot.day, minutes(slot.start_time), minutes(slot.end_time))

\* C15: overlap is the half-open interval test.  Slots of different days
\* never overlap; slots of one day overlap iff A.start < B.end and
\* B.start < A.end, so slots that touch at an endpoint do not overlap; a slot
\* with start < end overlaps itself.  Both functions; the last conjunct says
\* that the tests on minutes used for the Schedule and the scheduler give
\* the same answers.
C15_OverlapHalfOpen ==
    (pure.fn = "overlap" /\ pure.out # NoOut)
        => LET A == pure.args[1]
               B == pure.args[2]
               half_open == /\ A.day = B.day
                            /\ minutes(A.start_time) < minutes(B.end_time)
                            /\ minutes(B.start_time) < minutes(A.end_time)
           IN  /\ pure.out.a_b = half_open
               /\ pure.out.g_a_b = half_open
               /\ A.day # B.day => (~pure.out.a_b /\ ~pure.out.g_a_b)
               /\ A.end_time = B.start_time => (~pure.out.a_b /\ ~pure.out.g_a_b)
               /\ (A = B /\ minutes(A.start_time) < minutes(A.end_time))
                    => (pure.out.a_b /\ pure.out.g_a_b)
               /\ overlaps_with(MinuteSlot(A), MinuteSlot(B)) = pure.out.a_b
               /\ slots_overlap(MSlot(A.day, minutes(A.start_time), minutes(A.end_time)),
                                MSlot(B.day, minutes(B.start_time), minutes(B.end_time)))
                        = pure.out.g_a_b

\* two slots of one day that touch at 10:00 were compared: no overlap
C15_Witness ==
    /\ pure.fn = "overlap"
    /\ pure.out # NoOut
    /\ pure.args[1] = [day |-> 0, start_time |-> [hour |-> 9, minute |-> 0],
                       end_time |-> [hour |-> 10, minute |-> 0]]
    /\ pure.args[2] = [day |-> 0, start_time |-> [hour |-> 10, minute |-> 0],
                       end_time |-> [hour |-> 10, minute |-> 30]]
    /\ ~pure.out.a_b
    /\ ~pure.out.g_a_b

\* a slot with start < end was compared with itself: overlap
C15_WitnessSelf ==
    /\ pure.fn = "overlap"
    /\ pure.out # NoOut
    /\ pure.args[1] = pure.args[2]
    /\ minutes(pure.args[1].start_time) < minutes(pure.args[1].end_time)
    /\ pure.out.a_b
    /\ pure.out.g_a_b

-----------------------------------------------------------------------------
(* Properties of the CourseSchedulingSystem *)

inside(slot, window) ==
    /\ slot.day_of_week = window.day_of_week
    /\ window.start_time <= slot.start_time
    /\ slot.end_time <= window.end_time

\* the slot is inside none of the windows the resource declares
OutsideEveryWindow(resource, slot) ==
    /\ resource.availability_hours # <<>>
    /\ \A i \in 1..Len(resource.availability_hours) :
            ~inside(slot, resource.availability_hours[i])

ViolatesResourceAvailability(course, slot) ==
    \E i \in 1..Len(course.required_resources) :
        OutsideEveryWindow(course.required_resources[i], slot)

\* the reschedule_course call under the lock is one that returns failure
RescheduleFails ==
    /\ lock # 0
    /\ frame.op = "reschedule_course"
    /\ \/ frame.pc = "rs_record"
       \/ /\ frame.pc = "rs_detect"
          /\ detect_conflicts(sys_courses[frame.course_id]) # <<>>

\* C8: reschedule rollback.  For a course with a committed slot S, a call
\* reschedule_course(course_id, N) with N inside no declared availability
\* window of one of the required resources returns failure and leaves the
\* course's slot equal to S.  Stated on the step with which the call returns.
C8_RescheduleRollback ==
    [][(/\ lock # 0
        /\ lock' = 0
        /\ frame.op = "reschedule_course"
        /\ frame.old_slot # NoneSlot
        /\ ViolatesResourceAvailability(sys_courses[frame.course_id], frame.new_slot))
            => (/\ ~sys_ret'.ok
                /\ sys_courses'[frame.course_id].schedule = frame.old_slot)]_vars

\* C9: while a reschedule_course call that ends in failure is running, what
\* a get_course of another thread returns for that course never holds the
\* attempted slot: it holds the slot committed before the call.
C9_NoDirtyRead ==
    [][(/\ RescheduleFails
        /\ frame.old_slot # NoneSlot
        /\ lock' = lock
        /\ sys_ret' # sys_ret
        /\ sys_ret'.op = "get_course"
        /\ sys_ret'.value.course_id = frame.course_id)
            => sys_ret'.value.schedule = frame.old_slot]_vars

SharesInstructor(a, b) == a.instructor.instructor_id = b.instructor.instructor_id

SharesResource(a, b) ==
    \E i \in 1..Len(a.required_resources), j \in 1..Len(b.required_resources) :
        a.required_resources[i].resource_id = b.required_resources[j].resource_id

\* C21: schedule_course commits the slot the scheduler found through the
\* hard-constraint pipeline, so that after any sequence of successful
\* schedule_course and reschedule_course calls no two courses that share
\* their instructor, or share a required resource, hold overlapping slots.
\* Stated for the states in which no call is running.
C21_NoSystemDoubleBooking ==
    lock = 0
        => \A a \in DOMAIN sys_courses : \A b \in DOMAIN sys_courses \ {a} :
            (/\ sys_courses[a].schedule # NoneSlot
             /\ sys_courses[b].schedule # NoneSlot
             /\ \/ SharesInstructor(sys_courses[a], sys_courses[b])
                \/ SharesResource(sys_courses[a], sys_courses[b]))
                => ~slots_overlap(sys_courses[a].schedule, sys_courses[b].schedule)

\* p is an initial segment of q
IsPrefix(p, q) ==
    /\ Len(p) <= Len(q)
    /\ \A i \in 1..Len(p) : p[i] = q[i]

C23_WitnessRemove ==
    /\ ret.op = "remove_course"
    /\ ret.ok
    /\ Len(validation_errors) = 1
    /\ ~is_valid

\* C24: remove_course(id) on a committed id returns true and deletes exactly
\* the record keyed by id, every other record and both logs staying as they
\* were; on an id that is not committed it returns false and changes nothing;
\* a second remove_course(id) right after a successful one returns false
C24_RemoveCourseFrame ==
    /\ [](hist.op = "remove_course"
            => /\ ret.op = "remove_course"
               /\ ret.ok <=> hist.course_id \in DOMAIN hist.base
               /\ ret.ok => /\ DOMAIN courses = DOMAIN hist.base \ {hist.course_id}
                            /\ \A k \in DOMAIN courses : courses[k] = hist.base[k]
               /\ ~ret.ok => courses = hist.base)
    /\ [][hist'.op = "remove_course"
            => /\ validation_errors' = validation_errors
               /\ validation_warnings' = validation_warnings
               /\ (/\ hist.op = "remove_course"
                    /\ hist.ok
                    /\ hist'.course_id = hist.course_id) => ~ret'.ok]_vars

\* a remove_course that deleted one of two records while both logs hold an
\* entry
C24_Witness ==
    /\ hist.op = "remove_course"
    /\ ret.ok
    /\ Cardinality(DOMAIN hist.base) = 2
    /\ Cardinality(DOMAIN courses) = 1
    /\ validation_errors # <<>>

\* the second remove_course of the same id, which finds it gone while another
\* record is still committed
C24_WitnessSecond ==
    /\ hist.op = "remove_course"
    /\ ~ret.ok
    /\ hist.course_id \notin DOMAIN hist.base
    /\ DOMAIN courses # {}

\* the step is a call of one of the six mutation entry points with course_id
EntryCall(t, course_id) ==
    \/ ScheduleCourseCall(t, course_id)
    \/ \E new_slot \in NewSlots : RescheduleCourseCall(t, course_id, new_slot)
    \/ StartCourse(t, course_id)
    \/ CompleteCourse(t, course_id)
    \/ CancelCourse(t, course_id)
    \/ EnrollStudent(t, course_id)

\* C25: schedule_course, reschedule_course, start_course, complete_course,
\* cancel_course and enroll_student called with a course id that is not
\* registered return (False, "Course not found") and leave the courses, their
\* statuses and slots, and the conflict history unchanged
C25_UnknownCourseRejected ==
    [][\A t \in Threads : \A course_id \in SysIds \ DOMAIN sys_courses :
            EntryCall(t, course_id)
                => /\ sys_ret'.thread = t
                   /\ ~sys_ret'.ok
                   /\ sys_ret'.message = "Course not found"
                   /\ sys_ret'.notify = <<>>
                   /\ sys_courses' = sys_courses
                   /\ conflict_history' = conflict_history
                   /\ lock' = 0]_vars

\* reschedule_course of an unregistered id was refused while the registered
\* course holds a slot and the conflict history an entry
C25_Witness ==
    /\ sys_ret.op = "reschedule_course"
    /\ sys_ret.message = "Course not found"
    /\ lock = 0
    /\ \E id \in DOMAIN sys_courses : sys_courses[id].schedule # NoneSlot
    /\ conflict_history # <<>>

\* each of the other entry points was refused for an unregistered id
C25_WitnessSchedule ==
    sys_ret.op = "schedule_course" /\ sys_ret.message = "Course not found"

C25_WitnessStart ==
    sys_ret.op = "start_course" /\ sys_ret.message = "Course not found"

C25_WitnessComplete ==
    sys_ret.op = "complete_course" /\ sys_ret.message = "Course not found"

C25_WitnessCancel ==
    sys_ret.op = "cancel_course" /\ sys_ret.message = "Course not found"

C25_WitnessEnroll ==
    sys_ret.op = "enroll_student" /\ sys_ret.message = "Course not found"

\* C26: two CourseSchedule records with the same course id compare equal and
\* hash alike, whatever their time slot, instructor and classroom
C26_EqualByIdOnly ==
    (/\ pure.fn = "eq"
     /\ ~pure.out.pending
     /\ pure.args[1].course.course_id = pure.args[2].course.course_id)
        => /\ pure.out.eq
           /\ pure.out.hash_a = pure.out.hash_b

\* C27: every slot GreedyScheduler.schedule_course returns lies fully inside at
\* least one availability window of each required resource that declares
\* windows (same day, start >= window.start, end <= window.end); a candidate
\* that only partly intersects a window is not returned
C27_GreedyContainment ==
    (g_ret.pc = "done" /\ g_ret.slot # NoneSlot)
        => ~ViolatesResourceAvailability(g_call.course, g_ret.slot)

\* C28: for a course whose every required resource has an empty availability
\* list and whose instructor is available for some candidate,
\* GreedyScheduler.schedule_course returns the first candidate the instructor is
\* available for, and detect_conflicts reports no resource_unavailable conflict
\* for the course at that slot
C28_EmptyAvailabilityAlwaysAvailable ==
    LET course == g_call.course
        cands == g_call.available_slots
        instr == {i \in 1..Len(cands) :
                    any_overlap(cands[i], course.instructor.available_slots)}
    IN  (/\ g_ret.pc = "done"
         /\ \A r \in 1..Len(course.required_resources) :
                course.required_resources[r].availability_hours = <<>>
         /\ instr # {})
            => \E i \in instr :
                /\ \A j \in instr : i <= j
                /\ g_ret.slot = cands[i]
                /\ \A k \in 1..Len(detect_conflicts([course EXCEPT !.schedule = cands[i]])) :
                        detect_conflicts([course EXCEPT !.schedule = cands[i]])[k].conflict_type
                            # "resource_unavailable"

\* the slot overlaps none of the declared windows
MatchesNone(slot, windows) ==
    /\ windows # <<>>
    /\ \A i \in 1..Len(windows) : ~slots_overlap(slot, windows[i])

\* the number of entries of the list that have the given type
CountType(conflicts, type) ==
    Cardinality({k \in 1..Len(conflicts) : conflicts[k].conflict_type = type})

\* C29: detect_conflicts(course) returns exactly one no_schedule conflict when
\* the course has no slot; otherwise one instructor_unavailable conflict iff the
\* instructor declares availability and the slot matches none of it, plus one
\* resource_unavailable conflict per required resource that declares windows
\* none of which the slot matches; no other type; every conflict carries the
\* course's id; the course is left as it was and the slots recorded for other
\* courses play no part
C29_DetectConflictsShape ==
    (pure.fn = "detect_conflicts" /\ ~pure.out.pending)
        => LET course == pure.args[1]
               conflicts == pure.out.conflicts
               failing == {r \in 1..Len(course.required_resources) :
                            MatchesNone(course.schedule,
                                        course.required_resources[r].availability_hours)}
           IN  /\ pure.out.course = course
               /\ \A k \in 1..Len(conflicts) : conflicts[k].course_id = course.course_id
               /\ IF course.schedule = NoneSlot
                  THEN /\ Len(conflicts) = 1
                       /\ conflicts[1].conflict_type = "no_schedule"
                  ELSE /\ \A k \in 1..Len(conflicts) :
                            conflicts[k].conflict_type
                                \in {"instructor_unavailable", "resource_unavailable"}
                       /\ CountType(conflicts, "instructor_unavailable")
                            = IF MatchesNone(course.schedule,
                                             course.instructor.available_slots)
                              THEN 1 ELSE 0
                       /\ CountType(conflicts, "resource_unavailable") = Cardinality(failing)
                       /\ \A r \in failing : \E k \in 1..Len(conflicts) :
                            /\ conflicts[k].conflict_type = "resource_unavailable"
                            /\ conflicts[k].description = course.required_resources[r].name

\* a course whose slot matches no window of its instructor nor of one of its
\* two resources, on a scheduler that recorded a slot for another course:
\* one conflict of each kind
C29_Witness ==
    /\ pure.fn = "detect_conflicts"
    /\ ~pure.out.pending
    /\ scheduled_slots # NoSlots
    /\ Len(pure.args[1].required_resources) = 2
    /\ Len(pure.out.conflicts) = 2
    /\ pure.out.conflicts[1].conflict_type = "instructor_unavailable"
    /\ pure.out.conflicts[2].conflict_type = "resource_unavailable"

\* a course with no slot: the single no_schedule conflict
C29_WitnessNoSchedule ==
    /\ pure.fn = "detect_conflicts"
    /\ ~pure.out.pending
    /\ pure.args[1].schedule = NoneSlot
    /\ Len(pure.out.conflicts) = 1

\* a resource and an instructor with empty lists: no conflict
C29_WitnessEmptyLists ==
    /\ pure.fn = "detect_conflicts"
    /\ ~pure.out.pending
    /\ pure.args[1].schedule # NoneSlot
    /\ pure.args[1].instructor.available_slots = <<>>
    /\ pure.args[1].required_resources = <<OnlineA>>
    /\ pure.out.conflicts = <<>>

\* C30: when no candidate of the grid satisfies availability for a course in
\* status scheduled, GreedyScheduler.schedule_course returns none and records
\* nothing, and schedule_course returns failure with the no-slot-found message,
\* leaving the course's slot, its status and the conflict history unchanged
C30_NoSlotFound ==
    [][\A t \in Threads : \A course_id \in DOMAIN sys_courses :
            (/\ ScheduleCourseCall(t, course_id)
             /\ sys_courses[course_id].status = "scheduled"
             /\ \A i \in 1..Len(generate_available_slots) :
                    ~check_availability(sys_courses[course_id], generate_available_slots[i]))
                => /\ greedy_schedule_course(sys_courses[course_id],
                                             generate_available_slots) = NoneSlot
                   /\ scheduled_slots' = scheduled_slots
                   /\ sys_ret'.op = "schedule_course"
                   /\ ~sys_ret'.ok
                   /\ sys_ret'.message = "No available time slot found for this course"
                   /\ sys_courses' = sys_courses
                   /\ conflict_history' = conflict_history
                   /\ lock' = 0]_vars

\* schedule_course found no slot for the weekend course, which keeps the
\* Saturday slot an earlier reschedule_course gave it; the conflict history
\* holds an entry of an earlier failed call
C30_Witness ==
    /\ sys_ret.op = "schedule_course"
    /\ sys_ret.message = "No available time slot found for this course"
    /\ conflict_history # <<>>
    /\ \E id \in DOMAIN sys_courses :
            /\ sys_courses[id].name = "Weekend Workshop"
            /\ sys_courses[id].schedule = MSlot(5, 540, 600)
            /\ sys_courses[id].status = "scheduled"

\* C22: when schedule_course returns after detect_conflicts, then if the list
\* of conflicts of the newly assigned slot is non-empty, exactly those conflicts
\* are appended to the conflict history, the result is a failure and no
\* notification is sent; if the list is empty the conflict history is unchanged
\* and the result is a success
C22_ConflictsFailTheCall ==
    [][(lock # 0 /\ frame.pc = "sc_detect" /\ lock' = 0)
        => LET conflicts == detect_conflicts(sys_courses[frame.course_id])
           IN  /\ sys_ret'.op = "schedule_course"
               /\ IF conflicts # <<>>
                  THEN /\ conflict_history' = conflict_history \o conflicts
                       /\ ~sys_ret'.ok
                       /\ sys_ret'.notify = <<>>
                  ELSE /\ conflict_history' = conflict_history
                       /\ sys_ret'.ok]_vars

\* a schedule_course that failed on two conflicts, both now in the history
C22_Witness ==
    /\ sys_ret.op = "schedule_course"
    /\ ~sys_ret.ok
    /\ sys_ret.message = "Scheduling conflicts detected"
    /\ sys_ret.notify = <<>>
    /\ Len(conflict_history) = 2
    /\ conflict_history[1].conflict_type = "instructor_unavailable"
    /\ conflict_history[2].conflict_type = "resource_unavailable"

\* a schedule_course that found no conflict, succeeded and notified
C22_WitnessSuccess ==
    /\ sys_ret.op = "schedule_course"
    /\ sys_ret.ok
    /\ Len(sys_ret.notify) = 1
    /\ conflict_history = <<>>

\* C31: the conflict history only grows at its end: every step keeps the
\* recorded entries at their positions, and a step that adds entries is the
\* failure return of a schedule_course or reschedule_course call, the entries
\* added being the conflicts that call detected for the slot it tried
C31_ConflictHistoryAppendOnly ==
    [][/\ IsPrefix(conflict_history, conflict_history')
       /\ conflict_history' # conflict_history
            => /\ lock # 0
               /\ frame.op \in {"schedule_course", "reschedule_course"}
               /\ sys_ret'.op = frame.op
               /\ ~sys_ret'.ok
               /\ detect_conflicts([sys_courses[frame.course_id]
                                        EXCEPT !.schedule = frame.new_slot]) # <<>>
               /\ conflict_history'
                    = conflict_history
                        \o detect_conflicts([sys_courses[frame.course_id]
                                                EXCEPT !.schedule = frame.new_slot])]_vars

\* a conflict history of two entries that a later successful start_course
\* left in place
C31_Witness ==
    /\ Len(conflict_history) = 2
    /\ sys_ret.op = "start_course"
    /\ sys_ret.ok

\* one failed reschedule_course that recorded two different conflicts
C31_WitnessTwo ==
    /\ Len(conflict_history) = 2
    /\ conflict_history[1] # conflict_history[2]
    /\ sys_ret.op = "reschedule_course"
    /\ ~sys_ret.ok

\* the unordered pairs of distinct records among records whose slots overlap
DoubleBookings(records) ==
    {pair \in SUBSET records :
        /\ Cardinality(pair) = 2
        /\ \E a, b \in pair : a # b /\ overlaps_with(a.time_slot, b.time_slot)}

\* the list of tuples holds each double-booking among records exactly once
\* and nothing else, and the set of pairs computed for the summary agrees
AuditExact(records, audited) ==
    \A cs \in ListsOf(records) :
        LET conflicts == conflict_pairs(cs, 1, 2)
        IN  /\ \A k \in 1..Len(conflicts) :
                    /\ conflicts[k][1] # conflicts[k][2]
                    /\ {conflicts[k][1], conflicts[k][2]} \in DoubleBookings(records)
            /\ \A pair \in DoubleBookings(records) :
                    Cardinality({k \in 1..Len(conflicts) :
                                    {conflicts[k][1], conflicts[k][2]} = pair}) = 1
            /\ (conflicts = <<>>) <=> (DoubleBookings(records) = {})
            /\ audited = DoubleBookings(records)

\* C32: check_instructor_conflicts(id) and check_classroom_conflicts(id) return
\* each unordered pair of distinct committed records of the instructor or
\* classroom whose slots overlap exactly once, and no other pair, also when the
\* records were loaded without validation; the list is empty iff the entity
\* has no double-booking
C32_AuditExact ==
    /\ \A instructor \in Instructors :
            AuditExact(get_instructor_courses(courses, instructor.instructor_id),
                       check_instructor_conflicts(courses, instructor.instructor_id))
    /\ \A classroom \in Classrooms :
            AuditExact(get_classroom_courses(courses, classroom.room_id),
                       check_classroom_conflicts(courses, classroom.room_id))

\* three records of one instructor loaded without validation, one of the
\* three pairs overlapping
C32_Witness ==
    /\ Cardinality(get_instructor_courses(courses, "i1")) = 3
    /\ Cardinality(check_instructor_conflicts(courses, "i1")) = 1

\* three records in one classroom, all at the same time
C32_WitnessClassroom ==
    /\ Cardinality(get_classroom_courses(courses, "r2")) = 3
    /\ Cardinality(check_classroom_conflicts(courses, "r2")) = 3

\* the sum of the counts of a dict of counts
RECURSIVE SumValues(_)
SumValues(f) ==
    IF DOMAIN f = {} THEN 0
    ELSE LET k == CHOOSE x \in DOMAIN f : TRUE
         IN  f[k] + SumValues([x \in DOMAIN f \ {k} |-> f[x]])

\* the length of the audit list of a set of records
AuditLength(records) ==
    Len(conflict_pairs(CHOOSE cs \in ListsOf(records) : TRUE, 1, 2))

\* C33: in every reachable state get_schedule_summary agrees with the committed
\* records: total_courses is their number; the by_day, by_instructor and
\* by_classroom counts each sum to it; exactly the days, instructors and
\* classrooms with a record appear; an instructor or classroom is listed under
\* conflicts iff its audit list is non-empty, with the length of that list as
\* conflict_count
C33_SummaryConsistent ==
    LET summary == get_schedule_summary(courses)
        records == {courses[id] : id \in DOMAIN courses}
    IN  /\ summary.total_courses = Cardinality(DOMAIN courses)
        /\ SumValues(summary.by_day) = summary.total_courses
        /\ SumValues(summary.by_instructor) = summary.total_courses
        /\ SumValues(summary.by_classroom) = summary.total_courses
        /\ DOMAIN summary.by_day = {DayNames[cs.time_slot.day + 1] : cs \in records}
        /\ DOMAIN summary.by_instructor = {cs.instructor.instructor_id : cs \in records}
        /\ DOMAIN summary.by_classroom = {cs.classroom.room_id : cs \in records}
        /\ \A name \in DOMAIN summary.by_day : summary.by_day[name] >= 1
        /\ \A instructor \in Instructors :
                LET n == AuditLength(get_instructor_courses(courses,
                                                           instructor.instructor_id))
                    listed == {e \in summary.conflicts.instructor :
                                e.instructor_id = instructor.instructor_id}
                IN  IF n = 0 THEN listed = {}
                    ELSE listed = {[instructor_id |-> instructor.instructor_id,
                                    conflict_count |-> n]}
        /\ \A classroom \in Classrooms :
                LET n == AuditLength(get_classroom_courses(courses, classroom.room_id))
                    listed == {e \in summary.conflicts.classroom :
                                e.room_id = classroom.room_id}
                IN  IF n = 0 THEN listed = {}
                    ELSE listed = {[room_id |-> classroom.room_id, conflict_count |-> n]}
        /\ \A e \in summary.conflicts.instructor :
                e.instructor_id \in DOMAIN summary.by_instructor
        /\ \A e \in summary.conflicts.classroom : e.room_id \in DOMAIN summary.by_classroom

\* three records on two days, two instructors and two classrooms, one
\* instructor with a double-booking and no classroom with one
C33_Witness ==
    LET summary == get_schedule_summary(courses)
    IN  /\ summary.total_courses = 3
        /\ Cardinality(DOMAIN summary.by_day) = 2
        /\ Cardinality(DOMAIN summary.by_instructor) = 2
        /\ Cardinality(DOMAIN summary.by_classroom) = 2
        /\ Cardinality(summary.conflicts.instructor) = 1
        /\ summary.conflicts.classroom = {}

\* a < b for two strings, as Python orders str
str_lt(a, b) == a # b /\ str_le(a, b)

\* the minute of the day an "HH:MM" string names
StrMinutes(str) ==
    600 * (str[1] - 48) + 60 * (str[2] - 48) + 10 * (str[4] - 48) + (str[5] - 48)

\* C34: the grid holds exactly the 50 one-hour slots of Monday to Friday from
\* 08:00 to 18:00, ordered by weekday and then by start time, and every slot
\* has start < end; the last conjunct says that the grid on minutes used for
\* the system is this grid
C34_GridCanonical ==
    (pure.fn = "generate_available_slots" /\ ~pure.out.pending)
        => LET i == pure.args[1]
               j == pure.args[2]
               a == pure.out.a
               b == pure.out.b
           IN  /\ pure.out.len = 50
               /\ a.day_of_week \in 0..4
               /\ \E hour \in 8..17 :
                    /\ a.start_time = hour_string(hour)
                    /\ a.end_time = hour_string(hour + 1)
               /\ StrMinutes(a.end_time) = StrMinutes(a.start_time) + 60
               /\ str_lt(a.start_time, a.end_time)
               /\ i # j => a # b
               /\ i < j => \/ a.day_of_week < b.day_of_week
                           \/ /\ a.day_of_week = b.day_of_week
                              /\ str_lt(a.start_time, b.start_time)
                              /\ StrMinutes(a.start_time) < StrMinutes(b.start_time)
               /\ generate_available_slots[i]
                    = MSlot(a.day_of_week, StrMinutes(a.start_time), StrMinutes(a.end_time))

\* the slots on both sides of the step from 09:00 to 10:00, where the first
\* character of the strings changes, and from Monday to Tuesday
C34_Witness ==
    /\ pure.fn = "generate_available_slots"
    /\ ~pure.out.pending
    /\ pure.out.a = MSlot(0, hour_string(9), hour_string(10))
    /\ pure.out.b = MSlot(1, hour_string(8), hour_string(9))

\* the last slot of the grid, Friday 17:00-18:00
C34_WitnessLast ==
    /\ pure.fn = "generate_available_slots"
    /\ ~pure.out.pending
    /\ pure.args[2] = 50
    /\ pure.out.b = MSlot(4, hour_string(17), hour_string(18))

\* C35: the lock is released on every exit path of every mutating
\* operation: a thread whose call has returned does not hold it, and only a
\* thread in a call holds it; so a thread that has called an operation
\* eventually gets the lock and returns from the call, and a held lock is
\* eventually free
C35_LockReleasedAndLive ==
    /\ [](\A t \in Threads : lock = t => calls[t].pc = "called")
    /\ [](lock \in {0} \cup Threads)
    /\ \A t \in Threads : (calls[t].pc = "called") ~> (calls[t].pc = "idle")
    /\ (lock # 0) ~> (lock = 0)

\* a thread waits for the lock which the other thread holds in the middle of
\* a reschedule_course that is about to roll back
C35_Witness ==
    /\ lock # 0
    /\ frame.pc = "rs_record"
    /\ \E t \in Threads : calls[t].pc = "called" /\ lock # t

\* the exits by rollback, no slot found, rejected transition and not found
\* have each been taken with the lock free afterwards
C35_WitnessRollback ==
    lock = 0 /\ sys_ret.message = "Cannot reschedule: conflicts detected"

C35_WitnessNoSlot ==
    lock = 0 /\ sys_ret.message = "No available time slot found for this course"

C35_WitnessRejected ==
    lock = 0 /\ sys_ret.message = "Cannot start course with status ongoing"

C35_WitnessNotFound ==
    lock = 0 /\ sys_ret.message = "Course not found"

\* n copies of the notification
RECURSIVE Copies(_, _)
Copies(n, notification) ==
    IF n = 0 THEN <<>> ELSE <<notification>> \o Copies(n - 1, notification)

NotifyingOps ==
    {"schedule_course", "reschedule_course", "start_course", "complete_course",
     "cancel_course"}

\* C36: notification handlers are invoked only for successful events: a
\* schedule_course, reschedule_course, start_course, complete_course or
\* cancel_course call that returns success invokes every handler once for
\* each of its registrations, with the message of the event and the email of
\* the course's instructor; a call that returns failure invokes no handler,
\* and nothing else invokes one
C36_HandlersInvokedOnSuccessOnly ==
    [][/\ sent_notifications' # sent_notifications
            => /\ sys_ret'.ok
               /\ sys_ret'.op \in NotifyingOps
               /\ lock' = 0
               /\ notification_handlers' = notification_handlers
               /\ sys_ret'.notify # <<>>
               /\ sys_ret'.notify[1].message # ""
               /\ \A handler \in Handlers :
                     sent_notifications'[handler] =
                        sent_notifications[handler]
                          \o Copies(Registrations(notification_handlers, handler),
                                    [recipient |->
                                        sys_courses'["course_1"].instructor.email,
                                     message |-> sys_ret'.notify[1].message,
                                     medium |-> handler])
       /\ (sys_ret' # sys_ret /\ ~sys_ret'.ok)
            => sent_notifications' = sent_notifications
       /\ (sys_ret' # sys_ret /\ sys_ret'.ok /\ sys_ret'.op \in NotifyingOps)
            => \A handler \in Handlers :
                    Len(sent_notifications'[handler]) =
                        Len(sent_notifications[handler])
                            + Registrations(notification_handlers, handler)]_vars

\* both handlers are registered and each has been invoked for two successful
\* events, the second a start_course
C36_Witness ==
    /\ notification_handlers = <<"email", "slack">>
    /\ sys_ret.ok
    /\ sys_ret.op = "start_course"
    /\ \A handler \in Handlers : Len(sent_notifications[handler]) = 2

\* a call has failed after a successful one with a handler registered
C36_WitnessFailure ==
    /\ notification_handlers = <<"slack", "email">>
    /\ ~sys_ret.ok
    /\ sys_ret.op = "reschedule_course"
    /\ \A handler \in Handlers : Len(sent_notifications[handler]) = 1

\* a handler registered twice has been invoked twice for one event
C36_WitnessTwice ==
    /\ notification_handlers = <<"email", "email">>
    /\ Len(sent_notifications["email"]) = 2
    /\ sent_notifications["slack"] = <<>>

\* the candidates the agreement of search and re-check is stated for: the
\* grid of the system and slots off the grid
AgreeCandidates ==
    {generate_available_slots[i] : i \in DOMAIN generate_available_slots}
        \cup GCandidates \cup {MSlot(5, 540, 600)}

\* C37: search and re-check agree for the greedy scheduler: a slot that
\* GreedyScheduler.schedule_course returns for a course (one that passes its
\* _check_availability) gives an empty list from detect_conflicts once it is
\* assigned to that course, so the course that schedule_course re-checks
\* under the lock has no conflict, and the conflicts-detected failure is
\* never returned and nothing is appended to the conflict history
C37_SearchAndRecheckAgree ==
    /\ \A id \in DOMAIN sys_courses : \A slot \in AgreeCandidates :
            check_availability(sys_courses[id], slot)
                => detect_conflicts([sys_courses[id] EXCEPT !.schedule = slot]) = <<>>
    /\ \A id \in DOMAIN sys_courses :
            LET slot == greedy_schedule_course(sys_courses[id], generate_available_slots)
            IN  slot # NoneSlot
                    => detect_conflicts([sys_courses[id] EXCEPT !.schedule = slot]) = <<>>
    /\ frame.pc = "sc_detect"
            => detect_conflicts(sys_courses[frame.course_id]) = <<>>
    /\ sys_ret.message # "Scheduling conflicts detected"
    /\ conflict_history = <<>>

\* schedule_course is about to re-check a slot found for a course whose
\* instructor's availability was replaced before the call
C37_Witness ==
    /\ frame.pc = "sc_detect"
    /\ sys_courses[frame.course_id].instructor.available_slots = <<MSlot(0, 510, 570)>>
    /\ sys_courses[frame.course_id].schedule = MSlot(0, 480, 540)

\* schedule_course has returned success for the course of two resources
C37_WitnessSuccess ==
    /\ sys_ret.op = "schedule_course"
    /\ sys_ret.ok
    /\ "course_1" \in DOMAIN sys_courses
    /\ Len(sys_courses["course_1"].required_resources) = 2
    /\ sys_courses["course_1"].schedule # NoneSlot

\* the last add_course call was given a course id that was committed
Readd ==
    /\ hist.op = "add_course"
    /\ hist.rec.course.course_id \in DOMAIN hist.base

\* C38: one active record per course id: an add_course for a committed
\* course id replaces the record of that id and adds none, so the committed
\* records never outnumber the distinct course ids given to add_course; and
\* a validated re-add is validated against the mapping that still holds the
\* course's own old record: it is not accepted at a slot overlapping the old
\* one with the same instructor or the same classroom, nor when the
\* instructor's hours with the old record counted go over the maximum
C38_OneRecordPerCourseId ==
    /\ DOMAIN courses \subseteq hist.added
    /\ Cardinality(DOMAIN courses) <= Cardinality(hist.added)
    /\ Readd =>
        LET rec == hist.rec
            id == rec.course.course_id
            old == hist.base[id]
            v == validate_course_schedule(hist.base, rec)
        IN  /\ ret.ok => /\ courses = [hist.base EXCEPT ![id] = rec]
                         /\ DOMAIN courses = DOMAIN hist.base
            /\ ~ret.ok => courses = hist.base
            /\ ~hist.validate_constraints => ret.ok
            /\ hist.validate_constraints =>
                /\ ret.ok <=> v.ok
                /\ ~ret.ok => ret.error = v.error
                /\ ( /\ overlaps_with(rec.time_slot, old.time_slot)
                     /\ \/ old.instructor.instructor_id = rec.instructor.instructor_id
                        \/ old.classroom.room_id = rec.classroom.room_id )
                        => ~ret.ok
                /\ ( /\ old.instructor.instructor_id = rec.instructor.instructor_id
                     /\ ~validate_instructor_hours(rec.instructor, rec,
                            [k \in {id} |-> old]).ok )
                        => ~ret.ok

\* a validated re-add that passes the checks before the committed state is
\* looked at was rejected for the conflict with the course's own old record,
\* the only record there was
C38_Witness ==
    /\ Readd
    /\ hist.validate_constraints
    /\ DOMAIN hist.base = {hist.rec.course.course_id}
    /\ ~ret.ok
    /\ ret.error.kind = "instructor_conflict"

\* the same, rejected for the hours of the old record
C38_WitnessHours ==
    /\ Readd
    /\ hist.validate_constraints
    /\ DOMAIN hist.base = {hist.rec.course.course_id}
    /\ ~ret.ok
    /\ ret.error.kind = "exceed_max_hours"

\* a validated re-add was accepted and replaced the record next to another
C38_WitnessReplaced ==
    /\ Readd
    /\ hist.validate_constraints
    /\ ret.ok
    /\ Cardinality(DOMAIN courses) = 2
    /\ courses[hist.rec.course.course_id] # hist.base[hist.rec.course.course_id]

\* C39: slot and status are changed by disjoint operations: a step that
\* changes the slot of a course is a step of schedule_course on a course
\* whose status is scheduled, or of reschedule_course on a course that is
\* neither completed nor cancelled, and leaves the status as it is; a step
\* that changes the status of a course leaves its slot as it is
C39_SlotAndStatusDisjoint ==
    [][\A id \in DOMAIN sys_courses \cap DOMAIN sys_courses' :
        /\ sys_courses'[id].schedule # sys_courses[id].schedule
            => /\ sys_courses'[id].status = sys_courses[id].status
               /\ \/ /\ frame'.op = "schedule_course"
                     /\ sys_courses[id].status = "scheduled"
                  \/ /\ "reschedule_course" \in {frame.op, frame'.op}
                     /\ sys_courses[id].status \notin {"completed", "cancelled"}
        /\ sys_courses'[id].status # sys_courses[id].status
            => sys_courses'[id].schedule = sys_courses[id].schedule]_vars

\* C40: enrollment never exceeds capacity: with any interleaving of
\* concurrent enroll_student calls the count of every course stays between 0
\* and its capacity; a call that returns success has raised the count by
\* exactly one, a call that returns failure leaves it as it is and, for a
\* registered course, found it full; and nothing else changes the count
C40_EnrollmentWithinCapacity ==
    /\ [](\A id \in DOMAIN sys_courses :
            /\ 0 <= sys_courses[id].enrolled_students
            /\ sys_courses[id].enrolled_students <= sys_courses[id].capacity)
    /\ [][\A t \in Threads :
            (calls[t].pc # "idle" /\ calls'[t].pc = "idle") =>
                LET id == calls[t].course_id
                IN  /\ sys_ret'.thread = t
                    /\ sys_ret'.op = "enroll_student"
                    /\ IF sys_ret'.ok
                       THEN sys_courses' =
                                [sys_courses EXCEPT
                                    ![id].enrolled_students = @ + 1]
                       ELSE /\ sys_courses' = sys_courses
                            /\ id \in DOMAIN sys_courses
                                  => /\ sys_ret'.message = "Course is at full capacity"
                                     /\ sys_courses[id].enrolled_students
                                            = sys_courses[id].capacity]_vars
    /\ [][(\A t \in Threads : ~(calls[t].pc # "idle" /\ calls'[t].pc = "idle"))
            => \A id \in DOMAIN sys_courses \cap DOMAIN sys_courses' :
                    sys_courses'[id].enrolled_students
                        = sys_courses[id].enrolled_students]_vars

\* two threads are in enroll_student for a course with one seat left: one is
\* past the capacity test under the lock, the other waits at the lock
C40_Witness ==
    /\ "course_1" \in DOMAIN sys_courses
    /\ sys_courses["course_1"].capacity = 2
    /\ sys_courses["course_1"].enrolled_students = 1
    /\ \E t \in Threads : calls[t].pc = "increment" /\ lock = t
    /\ \E t \in Threads : calls[t].pc = "called" /\ calls[t].course_id = "course_1"

\* a call on the full course has returned failure
C40_WitnessFull ==
    /\ "course_1" \in DOMAIN sys_courses
    /\ sys_courses["course_1"].capacity = 2
    /\ sys_courses["course_1"].enrolled_students = 2
    /\ sys_ret.message = "Course is at full capacity"

\* a call on the course of capacity 0 has returned failure
C40_WitnessZero ==
    /\ "course_1" \in DOMAIN sys_courses
    /\ sys_courses["course_1"].capacity = 0
    /\ sys_ret.message = "Course is at full capacity"

-----------------------------------------------------------------------------
(* Properties of the threaded Schedule *)

\* C10: when two threads call add_course on one schedule for two different
\* courses of the same instructor or the same room with overlapping slots,
\* at most one of the two calls succeeds, whatever the interleaving.
C10_AtMostOneSucceeds ==
    \A t1, t2 \in Threads :
        (/\ t1 # t2
         /\ calls[t1].pc = "done"
         /\ calls[t2].pc = "done"
         /\ calls[t1].course_schedule.course.course_id
                # calls[t2].course_schedule.course.course_id
         /\ \/ SameInstructor(calls[t1].course_schedule, calls[t2].course_schedule)
            \/ SameClassroom(calls[t1].course_schedule, calls[t2].course_schedule)
         /\ overlaps_with(calls[t1].course_schedule.time_slot,
                          calls[t2].course_schedule.time_slot))
            => ~(calls[t1].ok /\ calls[t2].ok)

-----------------------------------------------------------------------------
(* Properties of the course status *)

StatusOf(course_id) == sys_courses[course_id].status

\* C11: a course is created scheduled; its status becomes ongoing only in a
\* step taken from scheduled and completed only in a step taken from
\* ongoing; start_course from a status other than scheduled and
\* complete_course from a status other than ongoing return failure and leave
\* the status as it was.
C11_StatusStateMachine ==
    [][\A course_id \in SysIds :
        /\ (course_id \notin DOMAIN sys_courses /\ course_id \in DOMAIN sys_courses')
                => sys_courses'[course_id].status = "scheduled"
        /\ (course_id \in DOMAIN sys_courses)
                => /\ course_id \in DOMAIN sys_courses'
                   /\ (sys_courses'[course_id].status = "ongoing"
                            /\ StatusOf(course_id) # "ongoing")
                        => StatusOf(course_id) = "scheduled"
                   /\ (sys_courses'[course_id].status = "completed"
                            /\ StatusOf(course_id) # "completed")
                        => StatusOf(course_id) = "ongoing"
                   /\ \A t \in Threads :
                        /\ (StartCourse(t, course_id) /\ StatusOf(course_id) # "scheduled")
                                => (~sys_ret'.ok /\ sys_courses' = sys_courses)
                        /\ (CompleteCourse(t, course_id) /\ StatusOf(course_id) # "ongoing")
                                => (~sys_ret'.ok /\ sys_courses' = sys_courses)]_vars

\* a start_course call was refused on a completed course while the other
\* course went through scheduled and ongoing
C11_Witness ==
    /\ sys_ret.op = "start_course"
    /\ ~sys_ret.ok
    /\ sys_ret.message = "Cannot start course with status completed"
    /\ \E a, b \in DOMAIN sys_courses :
        /\ sys_courses[a].status = "completed"
        /\ sys_courses[b].status = "ongoing"

\* C12: completed and cancelled are terminal.  Once the status of a course
\* is completed or cancelled, every start_course, complete_course or
\* cancel_course call on it returns failure and the status stays as it is.
C12_TerminalStatuses ==
    [][\A t \in Threads, course_id \in SysIds :
        (/\ course_id \in DOMAIN sys_courses
         /\ StatusOf(course_id) \in {"completed", "cancelled"}
         /\ \/ StartCourse(t, course_id)
            \/ CompleteCourse(t, course_id)
            \/ CancelCourse(t, course_id))
            => (/\ ~sys_ret'.ok
                /\ sys_courses'[course_id].status = StatusOf(course_id))]_vars

====
